---- MODULE Spec2Model ----
(***************************************************************************)
(* A model of the repository engine of biver: the metadata document        *)
(* (RepositoryData), the blob files of the repository directory, the       *)
(* versioned file, and the operations of repository_operations.rs that     *)
(* read and write them.  Every command-line invocation loads data.json,    *)
(* runs one operation and exits, so the state that lives between two       *)
(* operations is the state of the disk.                                    *)
(*                                                                         *)
(* Strings whose characters the code looks at (branch names, targets,      *)
(* nicknames) are sequences of one-character strings.  File contents are   *)
(* sequences of bytes.                                                     *)
(***************************************************************************)
EXTENDS Integers, Sequences, FiniteSets, TLC

VARIABLES
  data_file,       \* data.json: [exists, data]
  backups,         \* data_backup1.json .. data_backup5.json: [exists, data, modified]
  blobs,           \* the blob files of the repository directory: name -> bytes
  versioned_file,  \* the versioned file: [exists, bytes]
  output_file,     \* the file at restore's --output path: [exists, bytes]
  now,             \* SystemTime::now(), in seconds
  next_id,         \* the next VersionId that VersionId::new() returns
  committed,       \* history: version id -> the bytes of the versioned file when it was minted
  pending,         \* the running operation: the file-system steps it has still to make, and its Env
  other_pending    \* the operation a second process runs on the same repository, likewise

vars == <<data_file, backups, blobs, versioned_file, output_file, now, next_id, committed, pending,
          other_pending>>

\* ------------------------------------------------------------------ bounds

\* VersionId::new() is called at most MaxIds times.
MaxIds == 3

\* The longest history of the patch-chain specification.
MaxChainIds == 9

\* ------------------------------------------------------------------ constants

MAX_CONSECUTIVE_PATCHES == 7

DEFAULT_BRANCH == <<"m", "a", "i", "n">>

\* ------------------------------------------------------------------ values

NoId == 0

NoBranch == <<>>

NoBlobName == <<0, "none">>

Some(x) == [some |-> TRUE, value |-> x]

NoneStr == [some |-> FALSE, value |-> ""]

NoneName == [some |-> FALSE, value |-> <<>>]

NoFile == [exists |-> FALSE, bytes |-> <<>>]

FileOf(bytes) == [exists |-> TRUE, bytes |-> bytes]

Range(s) == {s[i] : i \in 1..Len(s)}

Min(a, b) == IF a <= b THEN a ELSE b

EmptyMap == <<>>

\* m with key k bound to v (HashMap::insert)
MapInsert(m, k, v) == [x \in (DOMAIN m) \cup {k} |-> IF x = k THEN v ELSE m[x]]

\* m without key k (HashMap::remove)
MapRemove(m, k) == [x \in (DOMAIN m) \ {k} |-> m[x]]

\* ------------------------------------------------------------------ word lists of nickname.rs

ADJECTIVES ==
  << <<"a","b","l","e">>, <<"a","c","i","d">>, <<"a","g","e","d">>, <<"a","i","r","y">>, <<"b","o","l","d">>
     , <<"b","o","n","y">>, <<"b","o","s","s">>, <<"b","r","i","e","f">>, <<"b","r","i","s","k">>
     , <<"b","u","s","y">>, <<"c","a","l","m">>, <<"c","h","e","a","p">>, <<"c","h","i","e","f">>
     , <<"c","i","v","i","l">>, <<"c","l","e","a","n">>, <<"c","l","e","a","r">>, <<"c","l","o","s","e">>
     , <<"c","o","l","d">>, <<"c","o","o","l">>, <<"c","r","i","s","p">>, <<"c","u","r","l","y">>
     , <<"d","a","m","p">>, <<"d","a","r","k">>, <<"d","e","a","d">>, <<"d","e","a","r">>, <<"d","e","e","p">>
     , <<"d","e","n","s","e">>, <<"d","i","m">>, <<"d","i","z","z","y">>, <<"d","r","y">>, <<"d","u","l","l">>
     , <<"d","u","s","t","y">>, <<"e","a","r","l","y">>, <<"e","a","s","t">>, <<"e","a","s","y">>
     , <<"e","m","p","t","y">>, <<"e","v","e","n">>, <<"e","v","i","l">>, <<"f","a","i","r">>
     , <<"f","a","k","e">>, <<"f","a","r">>, <<"f","a","s","t">>, <<"f","a","t">>, <<"f","e","w">>
     , <<"f","i","n","e">>, <<"f","i","r","m">>, <<"f","i","t">>, <<"f","l","a","t">>, <<"f","o","n","d">>
     , <<"f","o","u","l">>, <<"f","r","e","e">>, <<"f","r","e","s","h">>, <<"f","u","l","l">>
     , <<"g","i","a","n","t">>, <<"g","l","a","d">>, <<"g","o","o","d">>, <<"g","r","a","n","d">>
     , <<"g","r","a","y">>, <<"g","r","e","a","t">>, <<"g","r","e","e","n">>, <<"g","r","o","s","s">>
     , <<"h","a","l","f">>, <<"h","a","p","p","y">>, <<"h","a","r","d">>, <<"h","a","r","s","h">>
     , <<"h","a","s","t","y">>, <<"h","e","a","v","y">>, <<"h","i","g","h">>, <<"h","o","l","y">>
     , <<"h","o","t">>, <<"h","u","g","e">>, <<"i","c","y">>, <<"i","d","e","a","l">>, <<"i","d","l","e">>
     , <<"i","r","o","n">>, <<"j","o","l","l","y">>, <<"j","o","i","n","t">>, <<"k","e","e","n">>
     , <<"k","i","n","d">>, <<"k","n","o","w","n">>, <<"l","a","m","e">>, <<"l","a","r","g","e">>
     , <<"l","a","s","t">>, <<"l","a","t","e">>, <<"l","a","z","y">>, <<"l","e","a","n">>
     , <<"l","e","a","s","t">>, <<"l","e","f","t">>, <<"l","e","g","a","l">>, <<"l","e","v","e","l">>
     , <<"l","i","g","h","t">>, <<"l","i","m","p">>, <<"l","i","v","e">>, <<"l","i","v","i","d">>
     , <<"l","o","n","e">>, <<"l","o","n","g">>, <<"l","o","o","s","e">>, <<"l","o","s","t">>
     , <<"l","o","u","d">>, <<"l","o","w">>, <<"l","o","y","a","l">>, <<"l","u","c","i","d">>
     , <<"l","u","c","k","y">>, <<"m","a","d">>, <<"m","a","i","n">>, <<"m","a","j","o","r">>
     , <<"m","e","e","k">>, <<"m","e","r","e">>, <<"m","e","s","s","y">>, <<"m","i","l","d">>
     , <<"m","i","n","t">>, <<"m","i","s","t","y">>, <<"m","i","x","e","d">>, <<"m","o","r","a","l">>
     , <<"m","u","d","d","y">>, <<"m","u","t","e">>, <<"n","a","v","a","l">>, <<"n","e","a","r">>
     , <<"n","e","a","t">>, <<"n","e","w">>, <<"n","e","x","t">>, <<"n","i","c","e">>, <<"n","o","b","l","e">>
     , <<"n","o","t","e","d">>, <<"n","o","v","e","l">>, <<"o","d","d">>, <<"o","i","l","y">>, <<"o","l","d">>
     , <<"o","p","e","n">>, <<"o","t","h","e","r">>, <<"o","v","a","l">>, <<"p","a","l","e">>
     , <<"p","a","s","t">>, <<"p","e","t","t","y">>, <<"p","l","a","i","n">>, <<"p","l","u","m","p">>
     , <<"p","o","o","r">>, <<"p","r","i","m","e">>, <<"p","r","i","o","r">>, <<"p","r","o","u","d">>
     , <<"p","u","r","e">>, <<"q","u","i","c","k">>, <<"q","u","i","e","t">>, <<"r","a","p","i","d">>
     , <<"r","a","r","e">>, <<"r","a","w">>, <<"r","e","a","d","y">>, <<"r","e","a","l">>, <<"r","e","d">>
     , <<"r","i","c","h">>, <<"r","i","g","h","t">>, <<"r","i","g","i","d">>, <<"r","o","c","k","y">>
     , <<"r","o","u","g","h">>, <<"r","o","u","n","d">>, <<"r","o","w","d","y">>, <<"r","o","y","a","l">>
     , <<"r","u","r","a","l">>, <<"r","u","s","t","y">>, <<"s","a","d">>, <<"s","a","f","e">>
     , <<"s","a","l","t","y">>, <<"s","a","n","d","y">>, <<"s","a","n","e">>, <<"s","c","a","l","y">>
     , <<"s","c","a","r","y">>, <<"s","h","a","r","p">>, <<"s","h","i","n","y">>, <<"s","h","o","r","t">>
     , <<"s","h","y">>, <<"s","i","c","k">>, <<"s","i","l","k","y">>, <<"s","i","l","l","y">>
     , <<"s","l","e","e","k">>, <<"s","l","i","m">>, <<"s","l","i","m","y">>, <<"s","l","o","w">>
     , <<"s","m","a","l","l">>, <<"s","m","a","r","t">>, <<"s","m","o","k","y">>, <<"s","o","f","t">>
     , <<"s","o","l","i","d">>, <<"s","o","r","r","y">>, <<"s","o","u","r">>, <<"s","p","a","r","e">>
     , <<"s","p","i","c","y">>, <<"s","t","e","e","p">>, <<"s","t","i","f","f">>, <<"s","t","o","n","y">>
     , <<"s","u","n","n","y">>, <<"s","u","p","e","r">>, <<"s","w","e","e","t">>, <<"s","w","i","f","t">>
     , <<"t","a","l","l">>, <<"t","a","m","e">>, <<"t","a","n">>, <<"t","a","r","t">>, <<"t","a","s","t","y">>
     , <<"t","e","n","s","e">>, <<"t","h","i","c","k">>, <<"t","h","i","n">>, <<"t","i","d","y">>
     , <<"t","i","n","y">>, <<"t","i","r","e","d">>, <<"t","o","t","a","l">>, <<"t","o","u","g","h">>
     , <<"t","r","u","e">>, <<"t","w","i","n">>, <<"u","g","l","y">>, <<"u","l","t","r","a">>
     , <<"u","n","f","i","t">>, <<"u","r","b","a","n">>, <<"u","s","e","d">>, <<"u","s","u","a","l">>
     , <<"v","a","g","u","e">>, <<"v","a","l","i","d">>, <<"v","a","s","t">>, <<"v","i","t","a","l">>
     , <<"v","i","v","i","d">>, <<"w","a","r","m">>, <<"w","a","r","y">>, <<"w","e","a","k">>
     , <<"w","e","a","r","y">>, <<"w","e","s","t">>, <<"w","e","t">>, <<"w","h","i","t","e">>
     , <<"w","h","o","l","e">>, <<"w","i","d","e">>, <<"w","i","l","d">>, <<"w","i","n","d","y">>
     , <<"w","i","s","e">>, <<"w","i","t","t","y">>, <<"w","o","r","n">>, <<"w","o","r","s","t">>
     , <<"w","r","o","n","g">>, <<"y","o","u","n","g">>, <<"z","a","n","y">>, <<"z","e","r","o">> >>

NOUNS ==
  << <<"a","c","e">>, <<"a","c","t">>, <<"a","g","e">>, <<"a","i","r">>, <<"a","n","t">>, <<"a","p","e">>
     , <<"a","r","c","h">>, <<"a","r","e","a">>, <<"a","r","m">>, <<"a","r","m","y">>, <<"a","r","t">>
     , <<"a","t","o","m">>, <<"a","x","e">>, <<"b","a","b","y">>, <<"b","a","c","k">>, <<"b","a","l","l">>
     , <<"b","a","n","d">>, <<"b","a","n","k">>, <<"b","a","r","n">>, <<"b","a","s","e">>, <<"b","a","t","h">>
     , <<"b","a","y">>, <<"b","e","a","d">>, <<"b","e","a","m">>, <<"b","e","a","n">>, <<"b","e","a","r">>
     , <<"b","e","a","t">>, <<"b","e","d">>, <<"b","e","e">>, <<"b","e","l","t">>, <<"b","e","n","d">>
     , <<"b","i","k","e">>, <<"b","i","r","d">>, <<"b","i","t">>, <<"b","l","o","w">>, <<"b","o","a","t">>
     , <<"b","o","d","y">>, <<"b","o","l","t">>, <<"b","o","m","b">>, <<"b","o","n","e">>, <<"b","o","o","k">>
     , <<"b","o","o","t">>, <<"b","o","s","s">>, <<"b","o","w","l">>, <<"b","o","x">>, <<"b","o","y">>
     , <<"b","u","s","h">>, <<"c","a","k","e">>, <<"c","a","l","f">>, <<"c","a","l","l">>, <<"c","a","m","p">>
     , <<"c","a","p","e">>, <<"c","a","r","d">>, <<"c","a","r","t">>, <<"c","a","s","e">>, <<"c","a","s","h">>
     , <<"c","a","s","t">>, <<"c","a","t">>, <<"c","a","v","e">>, <<"c","e","l","l">>, <<"c","h","i","p">>
     , <<"c","i","t","y">>, <<"c","l","a","y">>, <<"c","l","i","p">>, <<"c","l","o","c","k">>
     , <<"c","l","u","b">>, <<"c","o","a","l">>, <<"c","o","a","t">>, <<"c","o","d","e">>, <<"c","o","i","l">>
     , <<"c","o","i","n">>, <<"c","o","n","e">>, <<"c","o","p","y">>, <<"c","o","r","d">>, <<"c","o","r","e">>
     , <<"c","o","r","k">>, <<"c","o","r","n">>, <<"c","o","s","t">>, <<"c","r","a","b">>, <<"c","r","e","w">>
     , <<"c","r","o","p">>, <<"c","r","o","w">>, <<"c","u","p">>, <<"c","u","r","b">>, <<"c","u","r","e">>
     , <<"d","a","d">>, <<"d","a","m","e">>, <<"d","a","t","a">>, <<"d","a","t","e">>, <<"d","a","w","n">>
     , <<"d","a","y">>, <<"d","e","a","l">>, <<"d","e","a","n">>, <<"d","e","c","k">>, <<"d","e","e","r">>
     , <<"d","e","s","k">>, <<"d","i","a","l">>, <<"d","i","c","e">>, <<"d","i","e","t">>, <<"d","i","m","e">>
     , <<"d","i","s","k">>, <<"d","o","c","k">>, <<"d","o","l","l">>, <<"d","o","m","e">>, <<"d","o","o","r">>
     , <<"d","o","s","e">>, <<"d","o","t">>, <<"d","o","v","e">>, <<"d","o","w","n">>, <<"d","r","a","g">>
     , <<"d","r","a","w">>, <<"d","r","o","p">>, <<"d","r","u","m">>, <<"d","u","c","k">>, <<"d","u","n","e">>
     , <<"d","u","s","t">>, <<"d","u","t","y">>, <<"e","a","g","l","e">>, <<"e","a","r","l">>
     , <<"e","d","g","e">>, <<"e","e","l">>, <<"f","a","c","e">>, <<"f","a","c","t">>, <<"f","a","l","l">>
     , <<"f","a","m","e">>, <<"f","a","n","g">>, <<"f","a","r","m">>, <<"f","a","w","n">>, <<"f","e","a","r">>
     , <<"f","e","a","t">>, <<"f","e","e","d">>, <<"f","e","e","l">>, <<"f","e","r","n">>, <<"f","i","l","e">>
     , <<"f","i","l","m">>, <<"f","i","r","e">>, <<"f","i","s","h">>, <<"f","i","s","t">>, <<"f","l","a","g">>
     , <<"f","l","a","m","e">>, <<"f","l","a","t">>, <<"f","l","o","w">>, <<"f","o","a","m">>, <<"f","o","g">>
     , <<"f","o","l","d">>, <<"f","o","n","t">>, <<"f","o","o","d">>, <<"f","o","o","t">>, <<"f","o","r","k">>
     , <<"f","o","r","m">>, <<"f","o","r","t">>, <<"f","o","w","l">>, <<"f","o","x">>, <<"f","u","e","l">>
     , <<"g","a","m","e">>, <<"g","a","p">>, <<"g","a","t","e">>, <<"g","e","a","r">>, <<"g","i","f","t">>
     , <<"g","i","r","l">>, <<"g","o","a","l">>, <<"g","o","a","t">>, <<"g","o","l","d">>, <<"g","o","l","f">>
     , <<"g","o","w","n">>, <<"g","r","a","b">>, <<"g","r","a","d","e">>, <<"g","r","a","m">>
     , <<"g","r","i","d">>, <<"g","r","i","p">>, <<"g","u","l","f">>, <<"g","u","l","l">>, <<"h","a","l","l">>
     , <<"h","a","n","d">>, <<"h","a","r","e">>, <<"h","a","r","m">>, <<"h","a","w","k">>, <<"h","e","a","d">>
     , <<"h","e","a","p">>, <<"h","e","a","t">>, <<"h","e","e","l">>, <<"h","e","r","b">>, <<"h","e","r","d">>
     , <<"h","e","r","o">>, <<"h","i","l","l">>, <<"h","i","n","t">>, <<"h","i","r","e">>, <<"h","o","l","e">>
     , <<"h","o","m","e">>, <<"h","o","o","k">>, <<"h","o","p","e">>, <<"h","o","r","n">>, <<"h","o","s","t">>
     , <<"h","o","u","r">>, <<"h","u","n","t">>, <<"i","d","e","a">>, <<"i","n","c","h">>, <<"i","r","o","n">>
     , <<"i","s","l","e">>, <<"i","t","e","m">>, <<"j","a","d","e">>, <<"j","a","i","l">>, <<"j","o","k","e">>
     , <<"j","u","r","y">>, <<"k","e","e","p">>, <<"k","e","n","t">>, <<"k","i","c","k">>, <<"k","i","n","g">>
     , <<"k","i","t","e">>, <<"k","n","e","e">>, <<"l","a","k","e">>, <<"l","a","m","b">>, <<"l","a","m","p">>
     , <<"l","a","n","d">>, <<"l","a","r","k">>, <<"l","a","w","n">>, <<"l","e","a","d">>, <<"l","e","a","f">>
     , <<"l","e","n","s">>, <<"l","i","f","e">>, <<"l","i","f","t">>, <<"l","i","m","b">>, <<"l","i","n","e">>
     , <<"l","i","n","k">>, <<"l","i","o","n">>, <<"l","i","s","t">>, <<"l","o","a","f">>, <<"l","o","a","n">>
     , <<"l","o","c","k">>, <<"l","o","f","t">>, <<"l","o","g">>, <<"l","o","o","k">>, <<"l","o","o","p">>
     , <<"l","o","r","d">>, <<"l","o","v","e">>, <<"l","u","n","g">>, <<"m","a","l","l">>, <<"m","a","n","e">>
     , <<"m","a","p">>, <<"m","a","r","k">>, <<"m","a","s","k">>, <<"m","a","s","s">>, <<"m","a","t","e">>
     , <<"m","a","t","h">>, <<"m","e","a","l">>, <<"m","e","a","t">>, <<"m","i","l","e">>, <<"m","i","l","k">>
     , <<"m","i","l","l">>, <<"m","i","n","d">>, <<"m","i","n","t">>, <<"m","i","s","t">>, <<"m","o","a","t">>
     , <<"m","o","d","e">>, <<"m","o","l","e">>, <<"m","o","n","k">>, <<"m","o","o","d">>, <<"m","o","o","n">>
     , <<"m","o","s","s">>, <<"m","o","t","h">>, <<"m","o","v","e">>, <<"m","y","t","h">>, <<"n","a","i","l">>
     , <<"n","a","m","e">>, <<"n","a","v","y">>, <<"n","e","c","k">>, <<"n","e","e","d">>, <<"n","e","s","t">>
     , <<"n","e","w","s">>, <<"n","o","s","e">>, <<"n","o","t","e">>, <<"p","a","c","e">>, <<"p","a","c","k">>
     , <<"p","a","g","e">>, <<"p","a","i","n">>, <<"p","a","i","r">>, <<"p","a","l","m">>, <<"p","a","n">>
     , <<"p","a","r","k">>, <<"p","a","r","t">>, <<"p","a","s","s">>, <<"p","a","s","t">>, <<"p","a","t","h">>
     , <<"p","e","a","k">>, <<"p","e","a","r">>, <<"p","e","g">>, <<"p","e","n">>, <<"p","e","s","t">>
     , <<"p","i","c","k">>, <<"p","i","e","r">>, <<"p","i","l","e">>, <<"p","i","n","e">>, <<"p","i","p","e">>
     , <<"p","l","a","n">>, <<"p","l","a","y">>, <<"p","l","o","t">>, <<"p","o","e","m">>, <<"p","o","e","t">>
     , <<"p","o","l","e">>, <<"p","o","l","l">>, <<"p","o","n","d">>, <<"p","o","n","y">>, <<"p","o","o","l">>
     , <<"p","o","r","t">>, <<"p","o","s","t">>, <<"p","u","l","l">>, <<"p","u","m","p">>, <<"r","a","c","e">>
     , <<"r","a","c","k">>, <<"r","a","f","t">>, <<"r","a","g","e">>, <<"r","a","i","l">>, <<"r","a","i","n">>
     , <<"r","a","n","k">>, <<"r","a","t","e">>, <<"r","a","y">>, <<"r","e","e","f">>, <<"r","e","n","t">>
     , <<"r","e","s","t">>, <<"r","i","c","e">>, <<"r","i","d","e">>, <<"r","i","n","g">>, <<"r","i","s","e">>
     , <<"r","i","s","k">>, <<"r","o","a","d">>, <<"r","o","c","k">>, <<"r","o","l","e">>, <<"r","o","o","f">>
     , <<"r","o","o","m">>, <<"r","o","o","t">>, <<"r","o","p","e">>, <<"r","o","s","e">>, <<"r","o","w">>
     , <<"r","u","l","e">>, <<"r","u","n">>, <<"s","a","g","e">>, <<"s","a","i","l">>, <<"s","a","l","e">>
     , <<"s","a","l","t">>, <<"s","a","n","d">>, <<"s","e","a","l">>, <<"s","e","a","t">>, <<"s","e","e","d">>
     , <<"s","e","l","f">>, <<"s","h","e","d">>, <<"s","h","i","p">>, <<"s","h","o","p">>, <<"s","h","o","t">>
     , <<"s","h","o","w">>, <<"s","i","d","e">>, <<"s","i","g","n">>, <<"s","i","l","k">>, <<"s","i","t","e">>
     , <<"s","i","z","e">>, <<"s","k","i","n">>, <<"s","l","a","b">>, <<"s","l","i","p">>, <<"s","l","o","t">>
     , <<"s","n","o","w">>, <<"s","o","a","p">>, <<"s","o","c","k">>, <<"s","o","i","l">>, <<"s","o","u","l">>
     , <<"s","o","u","p">>, <<"s","p","o","t">>, <<"s","t","a","r">>, <<"s","t","e","p">>, <<"s","t","e","w">>
     , <<"s","t","o","p">>, <<"s","u","i","t">>, <<"s","w","a","n">>, <<"t","a","l","e">>, <<"t","a","l","k">>
     , <<"t","a","n","k">>, <<"t","a","p","e">>, <<"t","a","s","k">>, <<"t","a","x","i">>, <<"t","e","a","m">>
     , <<"t","e","n","t">>, <<"t","e","r","m">>, <<"t","e","s","t">>, <<"t","e","x","t">>, <<"t","i","d","e">>
     , <<"t","i","l","e">>, <<"t","i","m","e">>, <<"t","o","a","d">>, <<"t","o","l","l">>, <<"t","o","m","b">>
     , <<"t","o","n","e">>, <<"t","o","o","l">>, <<"t","o","p">>, <<"t","o","u","r">>, <<"t","o","w","n">>
     , <<"t","r","a","y">>, <<"t","r","e","e">>, <<"t","r","e","k">>, <<"t","r","i","m">>, <<"t","r","i","p">>
     , <<"t","u","b">>, <<"t","u","b","e">>, <<"t","u","n","e">>, <<"t","u","r","f">>, <<"t","u","r","n">>
     , <<"t","w","i","g">>, <<"t","y","p","e">>, <<"u","n","i","t">>, <<"u","s","e","r">>, <<"v","a","s","e">>
     , <<"v","a","s","t">>, <<"v","e","i","l">>, <<"v","e","i","n">>, <<"v","e","r","b">>, <<"v","e","s","t">>
     , <<"v","i","e","w">>, <<"v","i","n","e">>, <<"v","o","l","t">>, <<"v","o","t","e">>, <<"w","a","g","e">>
     , <<"w","a","l","k">>, <<"w","a","l","l">>, <<"w","a","v","e">>, <<"w","a","x">>, <<"w","e","b">>
     , <<"w","e","e","d">>, <<"w","e","e","k">>, <<"w","e","l","l">>, <<"w","e","s","t">>, <<"w","h","i","p">>
     , <<"w","i","c","k">>, <<"w","i","f","e">>, <<"w","i","n","d">>, <<"w","i","n","e">>, <<"w","i","n","g">>
     , <<"w","i","r","e">>, <<"w","i","s","h">>, <<"w","o","l","f">>, <<"w","o","o","d">>, <<"w","o","o","l">>
     , <<"w","o","r","d">>, <<"w","o","r","k">>, <<"w","o","r","m">>, <<"w","r","a","p">>, <<"y","a","r","d">>
     , <<"y","e","a","r">>, <<"y","o","l","k">>, <<"z","o","n","e">> >>

\* ------------------------------------------------------------------ leaves

\* hash::xxh3_128 over the bytes of a file: a streaming hash, modelled as a
\* polynomial hash that is free of collisions on the modelled contents.
RECURSIVE xxh3_128_from(_, _)
xxh3_128_from(h, bytes) ==
  IF bytes = <<>> THEN h ELSE xxh3_128_from((h * 31 + Head(bytes)) % 1000003, Tail(bytes))

xxh3_128(bytes) == xxh3_128_from(17, bytes)

\* fs::metadata(path)?.len()
FileLength(bytes) == Len(bytes)

\* VersionId::bs58: the Base58 text of an id
bs58(id) == <<"i", "d", ToString(id)>>

\* VersionId::from_bs58: the id a text decodes to, NoId when it is no Base58 id
from_bs58(text) ==
  IF Len(text) = 3 /\ text[1] = "i" /\ text[2] = "d" /\ text[3] \in {ToString(i) : i \in 1..9}
  THEN CHOOSE i \in 1..9 : ToString(i) = text[3]
  ELSE NoId

\* VersionId::to_file_name: distinct ids give distinct names
to_file_name(id) == id

content_blob_file_name(version_id) == <<to_file_name(version_id), "content">>

preview_blob_file_name(version_id) == <<to_file_name(version_id), "preview">>

new_nickname(random_value) ==
  ADJECTIVES[(random_value % Len(ADJECTIVES)) + 1] \o <<"-">> \o NOUNS[(random_value % Len(NOUNS)) + 1]

\* known_file_types::is_image, on the lower-cased extension
to_lowercase(ext) ==
  CASE ext = "PSD" -> "psd"
    [] ext = "PNG" -> "png"
    [] OTHER -> ext

IMAGE_FILE_EXTENSIONS == {"png", "jpg", "jpeg", "psd"}

is_image(file_extension) == to_lowercase(file_extension) \in IMAGE_FILE_EXTENSIONS

\* ------------------------------------------------------------------ RepositoryData

HeadBranch(name) == [tag |-> "Branch", branch |-> name, version |-> NoId]

HeadVersion(id) == [tag |-> "Version", branch |-> NoBranch, version |-> id]

EmptyData == [head |-> HeadVersion(NoId), branches |-> EmptyMap, versions |-> <<>>]

has_version(d, id) == \E i \in 1..Len(d.versions) : d.versions[i].id = id

\* RepositoryData::version: the first version with that id (the callers unwrap)
version(d, id) ==
  d.versions[CHOOSE i \in 1..Len(d.versions) :
               /\ d.versions[i].id = id
               /\ \A j \in 1..(i - 1) : d.versions[j].id # id]

\* Head::branch
head_branch(d) == IF d.head.tag = "Branch" THEN Some(d.head.branch) ELSE NoneName

\* the id RepositoryData::head_version looks up, NoId when the head branch is unknown
head_version_id(d) ==
  IF d.head.tag = "Branch"
  THEN IF d.head.branch \in DOMAIN d.branches THEN d.branches[d.head.branch] ELSE NoId
  ELSE d.head.version

\* RepositoryData::head_version does not panic
head_resolves(d) == head_version_id(d) # NoId /\ has_version(d, head_version_id(d))

head_version(d) == version(d, head_version_id(d))

\* valid without its check that no two branches reference the same version
valid_without_distinct_tips(d) ==
  LET there_is_exactly_one_root ==
        Cardinality({i \in 1..Len(d.versions) : d.versions[i].parent = NoId}) = 1
      there_are_no_invalid_parent_references ==
        \A i \in 1..Len(d.versions) :
          d.versions[i].parent # NoId => has_version(d, d.versions[i].parent)
      head_reference_is_valid ==
        IF d.head.tag = "Branch" THEN d.head.branch \in DOMAIN d.branches
        ELSE has_version(d, d.head.version)
      all_branches_reference_valid_versions ==
        \A b \in DOMAIN d.branches : has_version(d, d.branches[b])
  IN  /\ there_is_exactly_one_root
      /\ there_are_no_invalid_parent_references
      /\ head_reference_is_valid
      /\ all_branches_reference_valid_versions

valid(d) ==
  LET there_is_exactly_one_root ==
        Cardinality({i \in 1..Len(d.versions) : d.versions[i].parent = NoId}) = 1
      there_are_no_invalid_parent_references ==
        \A i \in 1..Len(d.versions) :
          d.versions[i].parent # NoId => has_version(d, d.versions[i].parent)
      head_reference_is_valid ==
        IF d.head.tag = "Branch" THEN d.head.branch \in DOMAIN d.branches
        ELSE has_version(d, d.head.version)
      all_branches_reference_valid_versions ==
        \A b \in DOMAIN d.branches : has_version(d, d.branches[b])
      no_two_branches_reference_the_same_version ==
        Cardinality(DOMAIN d.branches) = Cardinality({d.branches[b] : b \in DOMAIN d.branches})
  IN  /\ there_is_exactly_one_root
      /\ there_are_no_invalid_parent_references
      /\ head_reference_is_valid
      /\ all_branches_reference_valid_versions
      /\ no_two_branches_reference_the_same_version

\* RepositoryData::iter_version_and_ancestors, as the sequence of the ids it yields:
\* it ends silently at an id that is not stored
RECURSIVE iter_version_and_ancestors(_, _)
iter_version_and_ancestors(d, id) ==
  IF id = NoId \/ ~has_version(d, id) THEN <<>>
  ELSE <<id>> \o iter_version_and_ancestors(d, version(d, id).parent)

\* RepositoryData::iter_ancestors (which yields the version it is given first); the
\* iterator panics at an id that is not stored, which no caller reaches with a
\* stored parent chain
iter_ancestors(d, id) == iter_version_and_ancestors(d, id)

iter_head_and_ancestors(d) == iter_version_and_ancestors(d, head_version_id(d))

\* RepositoryData::iter_children, as ids
iter_children(d, id) == {d.versions[i].id : i \in {j \in 1..Len(d.versions) : d.versions[j].parent = id}}

\* CountIsAtLeast::count_is_at_least over iter_children
count_is_at_least(children, n) == n = 0 \/ Cardinality(children) >= n

\* Vec::retain
retain(versions, keep_ids) == SelectSeq(versions, LAMBDA v : v.id \in keep_ids)

version_ids(d) == {d.versions[i].id : i \in 1..Len(d.versions)}

is_patch(v) == v.content_blob_kind = "Patch"

is_root(v) == v.parent = NoId

\* ------------------------------------------------------------------ external tools

\* What `xdelta3 -e -s old new patch` writes: a delta that names the source it was
\* made from and carries what is needed to rebuild `new` from it.
xdelta3_encode(old, new) == <<0, Len(new)>> \o new \o old

\* `xdelta3 -d -s old patch new` succeeds when the patch was made from `old`
xdelta3_decodes(old, patch) ==
  /\ Len(patch) >= 2
  /\ patch[1] = 0
  /\ Len(patch) >= 2 + patch[2]
  /\ SubSeq(patch, 3 + patch[2], Len(patch)) = old

xdelta3_decode(old, patch) == SubSeq(patch, 3, 2 + patch[2])

\* What `magick input -flatten -thumbnail 1024x1024> jpg:preview` writes
magick_thumbnail(input) == <<255>> \o input

\* ------------------------------------------------------------------ file-system steps

Disk == [data_file |-> data_file, backups |-> backups, blobs |-> blobs,
         versioned_file |-> versioned_file, output_file |-> output_file]

Step(op, name, base, out, data) == [op |-> op, name |-> name, base |-> base, out |-> out, data |-> data]

StepCreatePreview(name) == Step("create_preview", name, NoBlobName, "", EmptyData)

StepCopyToBlob(name) == Step("copy_to_blob", name, NoBlobName, "", EmptyData)

StepCreatePatch(base, name) == Step("create_patch", name, base, "", EmptyData)

StepWriteDataFile(data) == Step("write_data_file", NoBlobName, NoBlobName, "", data)

StepCopyBlobTo(name, out) == Step("copy_blob_to", name, NoBlobName, out, EmptyData)

StepRemoveFile(out) == Step("remove_file", NoBlobName, NoBlobName, out, EmptyData)

StepApplyPatch(base, name, out) == Step("xdelta3_decode", name, base, out, EmptyData)

StepPanic == Step("panic", NoBlobName, NoBlobName, "", EmptyData)

FileAt(disk, out) == IF out = "versioned_file" THEN disk.versioned_file ELSE disk.output_file

WithFileAt(disk, out, file) ==
  IF out = "versioned_file" THEN [disk EXCEPT !.versioned_file = file]
  ELSE [disk EXCEPT !.output_file = file]

StoredFile(data, modified) == [exists |-> TRUE, data |-> data, modified |-> modified]

NoStoredFile == [exists |-> FALSE, data |-> EmptyData, modified |-> 0]

\* rotate_backup: the file `next` after the call
rotate_backup(previous, next, interval, t) ==
  IF ~previous.exists THEN next
  ELSE IF next.exists /\ next.modified > t - interval THEN next
  ELSE StoredFile(previous.data, t)

\* write_data_file that rotates the newest generation first, so that each generation
\* is copied from a predecessor this same write has already refreshed
write_data_file_newest_first(disk, data, t) ==
  LET b == disk.backups
      backup1 == rotate_backup(disk.data_file, b[1], 10, t)
      backup2 == rotate_backup(backup1, b[2], 5 * 60, t)
      backup3 == rotate_backup(backup2, b[3], 3600, t)
      backup4 == rotate_backup(backup3, b[4], 5 * 3600, t)
      backup5 == rotate_backup(backup4, b[5], 24 * 3600, t)
  IN  [disk EXCEPT !.backups = <<backup1, backup2, backup3, backup4, backup5>>,
                   !.data_file = StoredFile(data, t)]

\* write_data_file that copies data.json to every generation that is due
write_data_file_all_from_data_file(disk, data, t) ==
  LET b == disk.backups
      backup5 == rotate_backup(disk.data_file, b[5], 24 * 3600, t)
      backup4 == rotate_backup(disk.data_file, b[4], 5 * 3600, t)
      backup3 == rotate_backup(disk.data_file, b[3], 3600, t)
      backup2 == rotate_backup(disk.data_file, b[2], 5 * 60, t)
      backup1 == rotate_backup(disk.data_file, b[1], 10, t)
  IN  [disk EXCEPT !.backups = <<backup1, backup2, backup3, backup4, backup5>>,
                   !.data_file = StoredFile(data, t)]

\* write_data_file once the document is valid: the rotation, oldest generation
\* first, then data.json
write_data_file(disk, data, t) ==
  LET b == disk.backups
      backup5 == rotate_backup(b[4], b[5], 24 * 3600, t)
      backup4 == rotate_backup(b[3], b[4], 5 * 3600, t)
      backup3 == rotate_backup(b[2], b[3], 3600, t)
      backup2 == rotate_backup(b[1], b[2], 5 * 60, t)
      backup1 == rotate_backup(disk.data_file, b[1], 10, t)
  IN  [disk EXCEPT !.backups = <<backup1, backup2, backup3, backup4, backup5>>,
                   !.data_file = StoredFile(data, t)]

Done(disk) == [disk |-> disk, status |-> "Ok"]

Failed(disk, status) == [disk |-> disk, status |-> status]

\* One file-system step of an operation, under the environment env at time t
ExecStep(disk, s, env, t) ==
  CASE s.op = "create_preview" ->
         \* image_magick::create_preview
         IF env.image_magick_ready /\ disk.versioned_file.exists
         THEN Done([disk EXCEPT !.blobs = MapInsert(@, s.name, magick_thumbnail(disk.versioned_file.bytes))])
         ELSE Failed(disk, "Err")
    [] s.op = "copy_to_blob" ->
         \* fs::copy(versioned_file, blob)
         IF disk.versioned_file.exists
         THEN Done([disk EXCEPT !.blobs = MapInsert(@, s.name, disk.versioned_file.bytes)])
         ELSE Failed(disk, "Err")
    [] s.op = "create_patch" ->
         \* xdelta3::create_patch
         IF env.xdelta3_ready /\ disk.versioned_file.exists /\ s.base \in DOMAIN disk.blobs
         THEN Done([disk EXCEPT !.blobs =
                      MapInsert(@, s.name, xdelta3_encode(disk.blobs[s.base], disk.versioned_file.bytes))])
         ELSE Failed(disk, "Err")
    [] s.op = "write_data_file" ->
         IF valid(s.data) THEN Done(write_data_file(disk, s.data, t))
         ELSE Failed(disk, "Panic")
    [] s.op = "copy_blob_to" ->
         \* fs::copy(blob, output)
         IF s.name \in DOMAIN disk.blobs
         THEN Done(WithFileAt(disk, s.out, FileOf(disk.blobs[s.name])))
         ELSE Failed(disk, "Err")
    [] s.op = "remove_file" ->
         \* fs::remove_file(new) at the start of xdelta3::apply_patch
         IF FileAt(disk, s.out).exists THEN Done(WithFileAt(disk, s.out, NoFile))
         ELSE Failed(disk, "Err")
    [] s.op = "xdelta3_decode" ->
         \* the tool's run in xdelta3::apply_patch
         IF /\ env.xdelta3_ready
            /\ s.base \in DOMAIN disk.blobs
            /\ s.name \in DOMAIN disk.blobs
            /\ xdelta3_decodes(disk.blobs[s.base], disk.blobs[s.name])
         THEN Done(WithFileAt(disk, s.out, FileOf(xdelta3_decode(disk.blobs[s.base], disk.blobs[s.name]))))
         ELSE Failed(disk, "Err")
    [] OTHER -> Failed(disk, "Panic")

\* The steps of an operation in order, up to the first that fails
RECURSIVE RunSteps(_, _, _, _)
RunSteps(disk, steps, env, t) ==
  IF steps = <<>> THEN Done(disk)
  ELSE LET r == ExecStep(disk, Head(steps), env, t)
       IN  IF r.status = "Ok" THEN RunSteps(r.disk, Tail(steps), env, t) ELSE r

\* ------------------------------------------------------------------ target resolution

UPPER == <<"A", "B", "C", "D", "E", "F", "G", "H", "I", "J", "K", "L", "M",
           "N", "O", "P", "Q", "R", "S", "T", "U", "V", "W", "X", "Y", "Z">>

LOWER == <<"a", "b", "c", "d", "e", "f", "g", "h", "i", "j", "k", "l", "m",
           "n", "o", "p", "q", "r", "s", "t", "u", "v", "w", "x", "y", "z">>

DIGITS == <<"0", "1", "2", "3", "4", "5", "6", "7", "8", "9">>

to_ascii_lowercase(c) ==
  IF \E i \in 1..Len(UPPER) : UPPER[i] = c
  THEN LOWER[CHOOSE i \in 1..Len(UPPER) : UPPER[i] = c]
  ELSE c

\* char::eq_ignore_ascii_case
char_eq_ignore_ascii_case(a, b) == to_ascii_lowercase(a) = to_ascii_lowercase(b)

\* str::eq_ignore_ascii_case
eq_ignore_ascii_case(a, b) ==
  Len(a) = Len(b) /\ \A i \in 1..Len(a) : char_eq_ignore_ascii_case(a[i], b[i])

\* the number of bytes of a character in UTF-8
len_utf8(c) == IF c \in {"e_acute", "u_umlaut"} THEN 2 ELSE 1

\* str::len, in bytes
RECURSIVE str_len(_)
str_len(s) == IF s = <<>> THEN 0 ELSE len_utf8(Head(s)) + str_len(Tail(s))

is_digit(c) == \E i \in 1..Len(DIGITS) : DIGITS[i] = c

digit_value(c) == (CHOOSE i \in 1..Len(DIGITS) : DIGITS[i] = c) - 1

RECURSIVE digits_value(_, _)
digits_value(acc, s) == IF s = <<>> THEN acc ELSE digits_value(acc * 10 + digit_value(Head(s)), Tail(s))

\* usize::from_str: an optional '+', then one digit or more
usize_from_str(s) ==
  LET body == IF s # <<>> /\ Head(s) = "+" THEN Tail(s) ELSE s
  IN  IF body # <<>> /\ \A i \in 1..Len(body) : is_digit(body[i])
      THEN [ok |-> TRUE, value |-> digits_value(0, body)]
      ELSE [ok |-> FALSE, value |-> 0]

without_dash(nickname) == SelectSeq(nickname, LAMBDA c : c # "-")

nickname_without_dash_matches(nickname, input) ==
  LET n == without_dash(nickname)
      zip_length == Min(Len(n), Len(input))
  IN  /\ \A i \in 1..zip_length : char_eq_ignore_ascii_case(n[i], input[i])
      /\ zip_length = str_len(input)

\* nickname_initials_match unwraps the first two characters of an input of two bytes
nickname_initials_panics(input) == str_len(input) = 2 /\ Len(input) < 2

nickname_initials_match(nickname, input) ==
  /\ str_len(input) = 2
  /\ Len(input) >= 2
  /\ LET index_of_dash == CHOOSE i \in 1..Len(nickname) :
                            nickname[i] = "-" /\ \A j \in 1..(i - 1) : nickname[j] # "-"
     IN  /\ char_eq_ignore_ascii_case(input[1], nickname[1])
         /\ char_eq_ignore_ascii_case(input[2], nickname[index_of_dash + 1])

nickname_matches(nickname, input) ==
  \/ eq_ignore_ascii_case(nickname, input)
  \/ nickname_without_dash_matches(nickname, input)
  \/ nickname_initials_match(nickname, input)

\* nickname_matches reaches the unwraps of nickname_initials_match
nickname_matches_panics(nickname, input) ==
  /\ ~eq_ignore_ascii_case(nickname, input)
  /\ ~nickname_without_dash_matches(nickname, input)
  /\ nickname_initials_panics(input)

TargetInvalid == [tag |-> "Invalid", branch |-> NoBranch, version |-> NoId]

TargetBranch(name) == [tag |-> "Branch", branch |-> name, version |-> NoId]

TargetVersion(id) == [tag |-> "Version", branch |-> NoBranch, version |-> id]

TargetPanic == [tag |-> "Panic", branch |-> NoBranch, version |-> NoId]

\* the positions of d.versions in the order of versions.sort_by(creation_time
\* descending), a stable sort: i comes before j
sorted_before(d, i, j) ==
  \/ d.versions[i].creation_time > d.versions[j].creation_time
  \/ d.versions[i].creation_time = d.versions[j].creation_time /\ i < j

resolve_nickname(d, target) ==
  LET idx == 1..Len(d.versions)
      matching == {i \in idx : nickname_matches(d.versions[i].nickname, target)}
      panicking == {i \in idx : nickname_matches_panics(d.versions[i].nickname, target)}
      first_of(S) == CHOOSE i \in S : \A j \in S \ {i} : sorted_before(d, i, j)
  IN  IF panicking # {} /\ (matching = {} \/ sorted_before(d, first_of(panicking), first_of(matching)))
      THEN TargetPanic
      ELSE IF matching # {} THEN TargetVersion(d.versions[first_of(matching)].id)
      ELSE TargetInvalid

\* resolve_target that counts the offsets from one: ~1 is the head
resolve_target_offset_from_one(d, target) ==
  IF target = <<>> THEN TargetInvalid
  ELSE IF target \in DOMAIN d.branches THEN TargetBranch(target)
  ELSE IF from_bs58(target) # NoId /\ has_version(d, from_bs58(target))
       THEN TargetVersion(from_bs58(target))
  ELSE IF target = <<"~">> THEN TargetVersion(head_version_id(d))
  ELSE IF Head(target) = "~" /\ usize_from_str(Tail(target)).ok
       THEN LET offset == usize_from_str(Tail(target)).value
                chain == iter_head_and_ancestors(d)
            IN  IF 1 <= offset /\ offset <= Len(chain) THEN TargetVersion(chain[offset]) ELSE TargetInvalid
  ELSE resolve_nickname(d, target)

resolve_target(d, target) ==
  IF target = <<>> THEN TargetInvalid
  ELSE IF target \in DOMAIN d.branches THEN TargetBranch(target)
  ELSE IF from_bs58(target) # NoId /\ has_version(d, from_bs58(target))
       THEN TargetVersion(from_bs58(target))
  ELSE IF target = <<"~">> THEN TargetVersion(head_version_id(d))
  ELSE IF Head(target) = "~" /\ usize_from_str(Tail(target)).ok
       THEN LET offset == usize_from_str(Tail(target)).value
                chain == iter_head_and_ancestors(d)
            IN  IF offset + 1 <= Len(chain) THEN TargetVersion(chain[offset + 1]) ELSE TargetInvalid
  ELSE resolve_nickname(d, target)

\* strict resolution that accepts the offset ~ as resolve_target does
resolve_target_strict_or_head(d, target) ==
  IF target = <<>> THEN NoId
  ELSE IF from_bs58(target) # NoId /\ has_version(d, from_bs58(target)) THEN from_bs58(target)
  ELSE IF target = <<"~">> THEN head_version_id(d)
  ELSE NoId

\* resolve_target_strict and resolve_target_strict_mut: the id of the version, or NoId
resolve_target_strict(d, target) ==
  IF target = <<>> THEN NoId
  ELSE IF from_bs58(target) # NoId /\ has_version(d, from_bs58(target)) THEN from_bs58(target)
  ELSE NoId

\* ------------------------------------------------------------------ operations

\* The versioned file is pic.psd
versioned_file_extension == Some("psd")

Env(xdelta3_ready, image_magick_ready) ==
  [xdelta3_ready |-> xdelta3_ready, image_magick_ready |-> image_magick_ready]

can_create_preview(env) ==
  /\ env.image_magick_ready
  /\ versioned_file_extension.some
  /\ is_image(versioned_file_extension.value)

\* What an operation decides before it touches the disk: its refusal, or "Ok" and
\* the file-system steps it goes on to make; minted tells whether VersionId::new()
\* was called
Refusal(result) == [result |-> result, steps |-> <<>>, minted |-> FALSE]

Proceed(steps, minted) == [result |-> "Ok", steps |-> steps, minted |-> minted]

NewVersion(id, t, bytes, description, parent, kind, base, preview) ==
  [id |-> id,
   creation_time |-> t,
   nickname |-> new_nickname(xxh3_128(bytes)),
   versioned_file_length |-> FileLength(bytes),
   versioned_file_xxh3_128 |-> xxh3_128(bytes),
   description |-> description,
   parent |-> parent,
   content_blob_file_name |-> content_blob_file_name(id),
   content_blob_kind |-> kind,
   patch_base |-> base,
   preview_blob_file_name |-> preview]

\* the number of versions at the front of the chain that satisfy is_patch (take_while)
RECURSIVE take_while_patch_count(_, _)
take_while_patch_count(d, chain) ==
  IF chain = <<>> \/ ~is_patch(version(d, Head(chain))) THEN 0
  ELSE 1 + take_while_patch_count(d, Tail(chain))

FullKind == [kind |-> "Full", base |-> NoId]

PatchKind(base) == [kind |-> "Patch", base |-> base]

\* content_blob_kind_for_child_of with > in the place of >=
content_blob_kind_off_by_one(d, parent_version_id) ==
  LET patch_sequence_count == take_while_patch_count(d, iter_ancestors(d, parent_version_id)) + 1
  IN  IF patch_sequence_count > MAX_CONSECUTIVE_PATCHES THEN FullKind
      ELSE PatchKind(parent_version_id)

content_blob_kind_for_child_of(d, parent_version_id) ==
  LET patch_sequence_count == take_while_patch_count(d, iter_ancestors(d, parent_version_id)) + 1
  IN  IF patch_sequence_count >= MAX_CONSECUTIVE_PATCHES THEN FullKind
      ELSE PatchKind(parent_version_id)

write_versioned_file_to_preview_blob(name) == <<StepCreatePreview(name)>>

write_versioned_file_to_content_blob(d, v) ==
  IF v.content_blob_kind = "Full" THEN <<StepCopyToBlob(v.content_blob_file_name)>>
  ELSE IF has_version(d, v.patch_base)
       THEN <<StepCreatePatch(version(d, v.patch_base).content_blob_file_name, v.content_blob_file_name)>>
  ELSE <<StepPanic>>

\* write_version_content that copies the blob whatever its kind
write_version_content_by_copy(d, v, out) == <<StepCopyBlobTo(v.content_blob_file_name, out)>>

write_version_content(d, v, out) ==
  IF v.content_blob_kind = "Full" THEN <<StepCopyBlobTo(v.content_blob_file_name, out)>>
  ELSE IF has_version(d, v.patch_base)
       THEN <<StepRemoveFile(out),
              StepApplyPatch(version(d, v.patch_base).content_blob_file_name, v.content_blob_file_name, out)>>
  ELSE <<StepPanic>>

\* set_versioned_file_to_version with the wrong path
set_output_file_to_version(d, v) == write_version_content(d, v, "output_file")

set_versioned_file_to_version(d, v) == write_version_content(d, v, "versioned_file")

\* data.json written before the blobs it names
data_then_blobs(preview_steps, content_steps, data_steps) ==
  data_steps \o preview_steps \o content_steps

\* The order of the writes of a commit: the preview blob, the content blob, data.json
blobs_then_data(preview_steps, content_steps, data_steps) ==
  preview_steps \o content_steps \o data_steps

preview_name_for(env, id) == IF can_create_preview(env) THEN preview_blob_file_name(id) ELSE NoBlobName

preview_steps_for(preview) ==
  IF preview # NoBlobName THEN write_versioned_file_to_preview_blob(preview) ELSE <<>>

\* commit_initial_version that names its branch DEFAULT_BRANCH whatever it is given
initial_branch_always_default(branch) == DEFAULT_BRANCH

\* branch.unwrap_or(DEFAULT_BRANCH)
initial_branch(branch) == IF branch.some THEN branch.value ELSE DEFAULT_BRANCH

commit_initial_version(disk, env, branch, description, new_version_id, t) ==
  IF disk.data_file.exists THEN Refusal("Err")
  ELSE IF ~disk.versioned_file.exists THEN Refusal("Err")
  ELSE
    LET name == initial_branch(branch)
        preview == preview_name_for(env, new_version_id)
        new_version == NewVersion(new_version_id, t, disk.versioned_file.bytes,
                                  IF description.some THEN description.value ELSE "",
                                  NoId, "Full", NoId, preview)
        repo_data == [head |-> HeadBranch(name),
                      branches |-> MapInsert(EmptyMap, name, new_version_id),
                      versions |-> <<new_version>>]
    IN  Proceed(blobs_then_data(preview_steps_for(preview),
                                write_versioned_file_to_content_blob(repo_data, new_version),
                                <<StepWriteDataFile(repo_data)>>), TRUE)

\* commit_version that looks at new_branch before it compares the hashes
commit_refusal_branch_first(d, versioned_file_xxh3_128, new_branch) ==
  IF new_branch.some /\ new_branch.value \in DOMAIN d.branches THEN "BranchAlreadyExists"
  ELSE IF versioned_file_xxh3_128 = head_version(d).versioned_file_xxh3_128 THEN "NothingToCommit"
  ELSE IF ~new_branch.some /\ ~head_branch(d).some THEN "BranchRequired"
  ELSE "Ok"

\* commit_version without its comparison of the hashes
commit_refusal_without_hash_check(d, versioned_file_xxh3_128, new_branch) ==
  IF new_branch.some /\ new_branch.value \in DOMAIN d.branches THEN "BranchAlreadyExists"
  ELSE IF ~new_branch.some /\ ~head_branch(d).some THEN "BranchRequired"
  ELSE "Ok"

\* The checks of commit_version in their order: the refusal, or "Ok"
commit_refusal(d, versioned_file_xxh3_128, new_branch) ==
  IF versioned_file_xxh3_128 = head_version(d).versioned_file_xxh3_128 THEN "NothingToCommit"
  ELSE IF new_branch.some /\ new_branch.value \in DOMAIN d.branches THEN "BranchAlreadyExists"
  ELSE IF ~new_branch.some /\ ~head_branch(d).some THEN "BranchRequired"
  ELSE "Ok"

\* commit_version that leaves the head where it was
commit_repo_data_keeping_head(d, branch, new_version) ==
  [head |-> d.head,
   branches |-> MapInsert(d.branches, branch, new_version.id),
   versions |-> Append(d.versions, new_version)]

\* The document commit_version goes on to write
commit_repo_data(d, branch, new_version) ==
  [head |-> HeadBranch(branch),
   branches |-> MapInsert(d.branches, branch, new_version.id),
   versions |-> Append(d.versions, new_version)]

commit_version(disk, env, new_branch, description, new_version_id, t) ==
  LET d == disk.data_file.data IN
  IF ~disk.versioned_file.exists THEN Refusal("Err")
  ELSE IF ~head_resolves(d) THEN Refusal("Panic")
  ELSE IF commit_refusal(d, xxh3_128(disk.versioned_file.bytes), new_branch) # "Ok"
       THEN Refusal(commit_refusal(d, xxh3_128(disk.versioned_file.bytes), new_branch))
  ELSE
    LET parent == head_version(d)
        branch == IF new_branch.some THEN new_branch.value ELSE head_branch(d).value
        kind == content_blob_kind_for_child_of(d, parent.id)
        preview == preview_name_for(env, new_version_id)
        new_version == NewVersion(new_version_id, t, disk.versioned_file.bytes,
                                  IF description.some THEN description.value ELSE "",
                                  parent.id, kind.kind, kind.base, preview)
        repo_data == commit_repo_data(d, branch, new_version)
    IN  Proceed(blobs_then_data(preview_steps_for(preview),
                                write_versioned_file_to_content_blob(repo_data, new_version),
                                <<StepWriteDataFile(repo_data)>>), TRUE)

\* amend_head that looks at the head before it compares the hashes
amend_refusal_head_first(d, file_hash) ==
  LET head == head_version(d) IN
  IF ~head_branch(d).some THEN "HeadMustBeBranch"
  ELSE IF file_hash = head.versioned_file_xxh3_128 THEN "NoUncommittedChanges"
  ELSE IF iter_children(d, head.id) # {} THEN "CannotAmendParent"
  ELSE IF head.parent # NoId /\ ~has_version(d, head.parent) THEN "Panic"
  ELSE IF head.parent # NoId /\ version(d, head.parent).versioned_file_xxh3_128 = file_hash
       THEN "HeadEqualsParent"
  ELSE "Ok"

\* The checks of amend_head in their order: the refusal, or "Ok"
amend_refusal(d, file_hash) ==
  LET head == head_version(d) IN
  IF file_hash = head.versioned_file_xxh3_128 THEN "NoUncommittedChanges"
  ELSE IF ~head_branch(d).some THEN "HeadMustBeBranch"
  ELSE IF iter_children(d, head.id) # {} THEN "CannotAmendParent"
  ELSE IF head.parent # NoId /\ ~has_version(d, head.parent) THEN "Panic"
  ELSE IF head.parent # NoId /\ version(d, head.parent).versioned_file_xxh3_128 = file_hash
       THEN "HeadEqualsParent"
  ELSE "Ok"

\* amend_head with the default of commit_version: no description given, none stored
amend_description_or_default(description, head) ==
  IF description.some THEN description.value ELSE ""

\* description.unwrap_or(&head.description)
amend_description(description, head) ==
  IF description.some THEN description.value ELSE head.description

amend_head(disk, env, description, new_version_id, t) ==
  LET d == disk.data_file.data IN
  IF ~disk.versioned_file.exists THEN Refusal("Err")
  ELSE IF ~head_resolves(d) THEN Refusal("Panic")
  ELSE IF amend_refusal(d, xxh3_128(disk.versioned_file.bytes)) # "Ok"
       THEN Refusal(amend_refusal(d, xxh3_128(disk.versioned_file.bytes)))
  ELSE
    LET head == head_version(d)
        kind == IF head.parent # NoId THEN content_blob_kind_for_child_of(d, head.parent) ELSE FullKind
        preview == preview_name_for(env, new_version_id)
        new_head == NewVersion(new_version_id, t, disk.versioned_file.bytes,
                               amend_description(description, head),
                               head.parent, kind.kind, kind.base, preview)
        repo_data == [head |-> d.head,
                      branches |-> MapInsert(d.branches, head_branch(d).value, new_version_id),
                      versions |-> Append(retain(d.versions, version_ids(d) \ {head.id}), new_head)]
    IN  Proceed(blobs_then_data(preview_steps_for(preview),
                                write_versioned_file_to_content_blob(repo_data, new_head),
                                <<StepWriteDataFile(repo_data)>>), TRUE)
reword(disk, target, description) ==
  LET d == disk.data_file.data
      id == resolve_target_strict(d, target)
  IN  IF id = NoId THEN Refusal("InvalidTarget")
      ELSE LET repo_data == [d EXCEPT !.versions =
                               [i \in 1..Len(d.versions) |->
                                  IF d.versions[i].id = id /\ \A j \in 1..(i - 1) : d.versions[j].id # id
                                  THEN [d.versions[i] EXCEPT !.description = description]
                                  ELSE d.versions[i]]]
           IN  Proceed(<<StepWriteDataFile(repo_data)>>, FALSE)

\* has_uncommitted_changes with == in the place of != in its last line
has_uncommitted_changes_inverted(disk) ==
  LET d == disk.data_file.data IN
  IF ~disk.versioned_file.exists THEN "Err"
  ELSE IF ~head_resolves(d) THEN "Panic"
  ELSE IF FileLength(disk.versioned_file.bytes) # head_version(d).versioned_file_length THEN "true"
  ELSE IF head_version(d).versioned_file_xxh3_128 = xxh3_128(disk.versioned_file.bytes) THEN "true"
  ELSE "false"

\* has_uncommitted_changes that stops at the comparison of the lengths
has_uncommitted_changes_by_length(disk) ==
  LET d == disk.data_file.data IN
  IF ~disk.versioned_file.exists THEN "Err"
  ELSE IF ~head_resolves(d) THEN "Panic"
  ELSE IF FileLength(disk.versioned_file.bytes) # head_version(d).versioned_file_length THEN "true"
  ELSE "false"

\* has_uncommitted_changes: "Err" when the versioned file cannot be read
has_uncommitted_changes(disk) ==
  LET d == disk.data_file.data IN
  IF ~disk.versioned_file.exists THEN "Err"
  ELSE IF ~head_resolves(d) THEN "Panic"
  ELSE IF FileLength(disk.versioned_file.bytes) # head_version(d).versioned_file_length THEN "true"
  ELSE IF head_version(d).versioned_file_xxh3_128 # xxh3_128(disk.versioned_file.bytes) THEN "true"
  ELSE "false"

\* discard of the version stored last, not of the head version
discard_of_last_version(disk) ==
  LET d == disk.data_file.data IN
  IF ~head_resolves(d) THEN Refusal("Panic")
  ELSE Proceed(set_versioned_file_to_version(d, d.versions[Len(d.versions)]), FALSE)

\* discard that also drops the head version from its branch, a hard reset to the
\* parent
discard_dropping_head(disk) ==
  LET d == disk.data_file.data
      h == head_version(d)
  IN  IF ~head_resolves(d) THEN Refusal("Panic")
      ELSE IF d.head.tag = "Branch" /\ h.parent # NoId
           THEN Proceed(<<StepWriteDataFile([d EXCEPT
                            !.versions = retain(d.versions, version_ids(d) \ {h.id}),
                            !.branches = MapInsert(d.branches, d.head.branch, h.parent)])>>
                        \o set_versioned_file_to_version(d, version(d, h.parent)), FALSE)
           ELSE Proceed(set_versioned_file_to_version(d, h), FALSE)

discard(disk) ==
  LET d == disk.data_file.data IN
  IF ~head_resolves(d) THEN Refusal("Panic")
  ELSE Proceed(set_versioned_file_to_version(d, head_version(d)), FALSE)

\* the longest prefix of seq that has no element in stop (take_while)
take_while_not_in(seq, stop) ==
  LET hits == {i \in 1..Len(seq) : seq[i] \in stop}
      first == IF hits = {} THEN Len(seq) + 1 ELSE CHOOSE i \in hits : \A j \in hits : i <= j
  IN  SubSeq(seq, 1, first - 1)

\* reset without its look at the children of the head
reset_refusal_ignoring_head_children(d, erased_version_ids) ==
  LET erased_versions_have_root == \E id \in erased_version_ids : is_root(version(d, id))
      erased_versions_have_multi_parents ==
        \E id \in erased_version_ids : count_is_at_least(iter_children(d, id), 2)
  IN  IF erased_versions_have_root THEN "InvalidTarget"
      ELSE IF erased_versions_have_multi_parents THEN "CannotLeaveOrphans"
      ELSE "Ok"

\* The checks reset makes on the versions it would erase, in their order
reset_refusal(d, erased_version_ids) ==
  LET erased_versions_have_root == \E id \in erased_version_ids : is_root(version(d, id))
      head_has_children == count_is_at_least(iter_children(d, head_version(d).id), 1)
      erased_versions_have_multi_parents ==
        \E id \in erased_version_ids : count_is_at_least(iter_children(d, id), 2)
  IN  IF erased_versions_have_root THEN "InvalidTarget"
      ELSE IF head_has_children THEN "CannotLeaveOrphans"
      ELSE IF erased_versions_have_multi_parents THEN "CannotLeaveOrphans"
      ELSE "Ok"

reset(disk, target) ==
  LET d == disk.data_file.data IN
  IF ~head_branch(d).some THEN Refusal("HeadMustBeBranch")
  ELSE IF resolve_target_strict(d, target) = NoId THEN Refusal("InvalidTarget")
  ELSE IF ~head_resolves(d) THEN Refusal("Panic")
  ELSE
    LET branch == head_branch(d).value
        target_version_id == resolve_target_strict(d, target)
        erased_versions == take_while_not_in(iter_head_and_ancestors(d), {target_version_id})
        erased_version_ids == Range(erased_versions)
    IN
    IF reset_refusal(d, erased_version_ids) # "Ok" THEN Refusal(reset_refusal(d, erased_version_ids))
    ELSE LET repo_data == [d EXCEPT !.versions = retain(d.versions, version_ids(d) \ erased_version_ids),
                                    !.branches = MapInsert(d.branches, branch, target_version_id)]
         IN  Proceed(<<StepWriteDataFile(repo_data)>>, FALSE)

\* check_out that looks for uncommitted changes only after it has written the new
\* head to data.json
check_out_writing_before_blocked(disk, target) ==
  LET d == disk.data_file.data
      changes == has_uncommitted_changes(disk)
      resolved == resolve_target(d, target)
  IN
  IF changes \in {"Err", "Panic"} THEN Refusal(changes)
  ELSE IF resolved.tag = "Panic" THEN Refusal("Panic")
  ELSE IF resolved.tag = "Invalid" THEN Refusal("InvalidTarget")
  ELSE
    LET new_head == IF resolved.tag = "Branch" THEN HeadBranch(resolved.branch)
                    ELSE HeadVersion(resolved.version)
        repo_data == [d EXCEPT !.head = new_head]
    IN  IF ~head_resolves(repo_data) THEN Refusal("Panic")
        ELSE IF changes = "true"
        THEN [result |-> "BlockedByUncommittedChanges",
              steps |-> <<StepWriteDataFile(repo_data)>>, minted |-> FALSE]
        ELSE Proceed(<<StepWriteDataFile(repo_data)>>
                     \o set_versioned_file_to_version(repo_data, head_version(repo_data)), FALSE)

check_out(disk, target) ==
  LET d == disk.data_file.data
      changes == has_uncommitted_changes(disk)
      resolved == resolve_target(d, target)
  IN
  IF changes \in {"Err", "Panic"} THEN Refusal(changes)
  ELSE IF changes = "true" THEN Refusal("BlockedByUncommittedChanges")
  ELSE IF resolved.tag = "Panic" THEN Refusal("Panic")
  ELSE IF resolved.tag = "Invalid" THEN Refusal("InvalidTarget")
  ELSE
    LET new_head == IF resolved.tag = "Branch" THEN HeadBranch(resolved.branch)
                    ELSE HeadVersion(resolved.version)
        repo_data == [d EXCEPT !.head = new_head]
    IN  IF ~head_resolves(repo_data) THEN Refusal("Panic")
        ELSE Proceed(<<StepWriteDataFile(repo_data)>>
                     \o set_versioned_file_to_version(repo_data, head_version(repo_data)), FALSE)

\* restore that moves the head to the version it restores, as check_out does
restore_steps_moving_head(d, v, out) ==
  <<StepWriteDataFile([d EXCEPT !.head = HeadVersion(v.id)])>> \o write_version_content(d, v, out)

\* The file-system steps of restore
restore_steps(d, v, out) == write_version_content(d, v, out)

restore(disk, target, output) ==
  LET d == disk.data_file.data
      changes == has_uncommitted_changes(disk)
      resolved == resolve_target(d, target)
  IN
  IF changes \in {"Err", "Panic"} THEN Refusal(changes)
  ELSE IF changes = "true" THEN Refusal("BlockedByUncommittedChanges")
  ELSE IF resolved.tag = "Panic" THEN Refusal("Panic")
  ELSE IF resolved.tag = "Invalid" THEN Refusal("InvalidTarget")
  ELSE
    LET target_version_id == IF resolved.tag = "Branch" THEN d.branches[resolved.branch]
                             ELSE resolved.version
    IN  IF ~has_version(d, target_version_id) THEN Refusal("Panic")
        ELSE Proceed(restore_steps(d, version(d, target_version_id),
                                   IF output.some THEN output.value ELSE "versioned_file"), FALSE)

\* rename_branch that looks old_name up before it looks at new_name
rename_branch_old_first(disk, old_name, new_name) ==
  LET d == disk.data_file.data IN
  IF old_name = new_name THEN Refusal("Ok")
  ELSE IF old_name \notin DOMAIN d.branches THEN Refusal("BranchDoesNotExist")
  ELSE IF new_name \in DOMAIN d.branches THEN Refusal("AnotherBranchExistsWithSameName")
  ELSE LET repo_data == [d EXCEPT !.branches = MapInsert(MapRemove(d.branches, old_name),
                                                         new_name, d.branches[old_name])]
       IN  Proceed(<<StepWriteDataFile(repo_data)>>, FALSE)

rename_branch(disk, old_name, new_name) ==
  LET d == disk.data_file.data IN
  IF old_name = new_name THEN Refusal("Ok")
  ELSE IF new_name \in DOMAIN d.branches THEN Refusal("AnotherBranchExistsWithSameName")
  ELSE IF old_name \notin DOMAIN d.branches THEN Refusal("BranchDoesNotExist")
  ELSE LET repo_data == [d EXCEPT !.branches = MapInsert(MapRemove(d.branches, old_name),
                                                         new_name, d.branches[old_name])]
       IN  Proceed(<<StepWriteDataFile(repo_data)>>, FALSE)

\* the set collected from the tips of all the branches, the deleted one included
versions_on_all_branches(d, name) ==
  UNION {Range(iter_version_and_ancestors(d, d.branches[b])) : b \in DOMAIN d.branches}

\* the set that delete_branch collects from the tips of the other branches: each walk
\* stops at a version an earlier walk has inserted, whose ancestors are in the set too
versions_on_other_branches(d, name) ==
  UNION {Range(iter_version_and_ancestors(d, d.branches[b])) : b \in (DOMAIN d.branches) \ {name}}

\* delete_branch that forgets the branch and keeps its versions
delete_branch_repo_data_keeping_versions(d, name, erased_version_ids) ==
  [d EXCEPT !.branches = MapRemove(d.branches, name)]

\* branches.remove(name) and versions.retain(not erased)
delete_branch_repo_data(d, name, erased_version_ids) ==
  [d EXCEPT !.branches = MapRemove(d.branches, name),
            !.versions = retain(d.versions, version_ids(d) \ erased_version_ids)]

delete_branch(disk, name) ==
  LET d == disk.data_file.data IN
  IF name \notin DOMAIN d.branches THEN Refusal("BranchDoesNotExist")
  ELSE
    LET branch_leaf_version_id == d.branches[name]
        erased_version_ids ==
          Range(take_while_not_in(iter_version_and_ancestors(d, branch_leaf_version_id),
                                  versions_on_other_branches(d, name)))
    IN
    IF ~head_resolves(d) THEN Refusal("Panic")
    ELSE IF head_version(d).id \in erased_version_ids THEN Refusal("CannotDeleteHead")
    ELSE Proceed(<<StepWriteDataFile(delete_branch_repo_data(d, name, erased_version_ids))>>, FALSE)

\* ------------------------------------------------------------------ inputs

Name_main == <<"m", "a", "i", "n">>

Name_feat == <<"f", "e", "a", "t">>

BranchNames == {Name_main, Name_feat}

BranchArgs == {NoneName} \cup {Some(b) : b \in BranchNames}

Descriptions == {"v"}

DescriptionArgs == {NoneStr} \cup {Some(t) : t \in Descriptions}

\* What the user's edit writes while the next id is k: bytes that no version holds
\* yet, of two lengths
FreshContent(k) == IF k % 2 = 1 THEN <<k>> ELSE <<k, k>>

\* both tools are installed, or neither is
Envs == {Env(TRUE, TRUE), Env(FALSE, FALSE)}

\* every environment
AllEnvs == {Env(x, m) : x \in BOOLEAN, m \in BOOLEAN}

\* the environments of the operations that never look at ImageMagick
DeltaEnvs == {Env(x, TRUE) : x \in BOOLEAN}

NoEnv == Env(TRUE, TRUE)

IdTexts == {bs58(i) : i \in 1..MaxIds}

Targets == BranchNames \cup IdTexts \cup {<<>>, <<"~", "1">>}

OutputArgs == {NoneStr, Some("output_file")}

\* the targets of reword and reset, which resolve a target strictly
RewordTargets == {bs58(1), <<"~">>}

ResetTargets == IdTexts \cup {Name_main}

\* ------------------------------------------------------------------ the state machine

NoPending == [steps |-> <<>>, env |-> NoEnv]

Init ==
  /\ data_file = NoStoredFile
  /\ backups = [k \in 1..5 |-> NoStoredFile]
  /\ blobs = EmptyMap
  /\ versioned_file = FileOf(FreshContent(1))
  /\ output_file = NoFile
  /\ now = 0
  /\ next_id = 1
  /\ committed = EmptyMap
  /\ pending = NoPending
  /\ other_pending = NoPending

Idle == pending = NoPending

Initialized == data_file.exists

\* VersionId::new() returns an id that names nothing yet: the next id is the first
\* one after those that name a file of the repository directory
NextFreeId(blob_files) ==
  LET used == {name[1] : name \in DOMAIN blob_files}
  IN  IF used = {} THEN 1 ELSE 1 + (CHOOSE i \in used : \A j \in used : j <= i)

\* the history of what was committed: a version that enters data.json holds the
\* bytes the versioned file has during the operation
Committed(disk) ==
  LET new_ids == IF disk.data_file.exists THEN version_ids(disk.data_file.data) \ DOMAIN committed
                 ELSE {}
  IN  [id \in (DOMAIN committed) \cup new_ids |->
         IF id \in DOMAIN committed THEN committed[id] ELSE versioned_file.bytes]

SetDisk(disk) ==
  /\ data_file' = disk.data_file
  /\ backups' = disk.backups
  /\ blobs' = disk.blobs
  /\ versioned_file' = disk.versioned_file
  /\ output_file' = disk.output_file
  /\ next_id' = NextFreeId(disk.blobs)
  /\ committed' = Committed(disk)

\* What a call returns: the refusal, or how the steps end
Result(outcome, env) ==
  IF outcome.result = "Ok" THEN RunSteps(Disk, outcome.steps, env, now).status ELSE outcome.result

\* One call of an operation that runs to its end: the steps it decided on are made
\* in order up to the first failure
Invoke(outcome, env) ==
  /\ Idle
  /\ SetDisk(RunSteps(Disk, outcome.steps, env, now).disk)
  /\ UNCHANGED <<now, pending, other_pending>>

\* The user edits the versioned file.  Contents that a version holds come back
\* through check_out, restore and discard.
ModifyFile ==
  /\ Idle
  /\ versioned_file # FileOf(FreshContent(next_id))
  /\ versioned_file' = FileOf(FreshContent(next_id))
  /\ UNCHANGED <<data_file, backups, blobs, output_file, now, next_id, committed, pending, other_pending>>

CommitInitialVersionWith(max_ids, branch_args, description_args, envs) ==
  \E branch \in branch_args, description \in description_args, env \in envs :
    LET outcome == commit_initial_version(Disk, env, branch, description, next_id, now)
    IN  /\ outcome.minted => next_id <= max_ids
        /\ Invoke(outcome, env)

CommitVersionWith(max_ids, branch_args, description_args, envs) ==
  /\ Initialized
  /\ \E new_branch \in branch_args, description \in description_args, env \in envs :
       LET outcome == commit_version(Disk, env, new_branch, description, next_id, now)
       IN  /\ outcome.minted => next_id <= max_ids
           /\ Invoke(outcome, env)

AmendHeadWith(max_ids, description_args, envs) ==
  /\ Initialized
  /\ \E description \in description_args, env \in envs :
       LET outcome == amend_head(Disk, env, description, next_id, now)
       IN  /\ outcome.minted => next_id <= max_ids
           /\ Invoke(outcome, env)

RewordWith(targets) ==
  /\ Initialized
  /\ \E target \in targets, description \in Descriptions :
       Invoke(reword(Disk, target, description), NoEnv)

Discard ==
  /\ Initialized
  /\ \E env \in DeltaEnvs : Invoke(discard(Disk), env)

ResetWith(targets) ==
  /\ Initialized
  /\ \E target \in targets : Invoke(reset(Disk, target), NoEnv)

CheckOut ==
  /\ Initialized
  /\ \E target \in Targets, env \in DeltaEnvs : Invoke(check_out(Disk, target), env)

RestoreWith(outputs) ==
  /\ Initialized
  /\ \E target \in Targets, output \in outputs, env \in DeltaEnvs :
       Invoke(restore(Disk, target, output), env)

RenameBranch ==
  /\ Initialized
  /\ \E old_name \in BranchNames, new_name \in BranchNames :
       Invoke(rename_branch(Disk, old_name, new_name), NoEnv)

DeleteBranch ==
  /\ Initialized
  /\ \E name \in BranchNames : Invoke(delete_branch(Disk, name), NoEnv)

CommitInitialVersion == CommitInitialVersionWith(MaxIds, BranchArgs, {NoneStr}, Envs)

CommitVersion == CommitVersionWith(MaxIds, BranchArgs, {NoneStr}, Envs)

AmendHead == AmendHeadWith(MaxIds, {NoneStr}, Envs)

Reword == RewordWith(RewordTargets)

Reset == ResetWith(ResetTargets)

\* restore to the versioned file
Restore == RestoreWith({NoneStr})

Next ==
  \/ ModifyFile
  \/ CommitInitialVersion
  \/ CommitVersion
  \/ AmendHead
  \/ Reword
  \/ Discard
  \/ Reset
  \/ CheckOut
  \/ Restore
  \/ RenameBranch
  \/ DeleteBranch

\* Every operation, each call running to its end
Spec == Init /\ [][Next]_vars

\* ------------------------------------------------------------------ long histories

\* reset goes back to the first version
ChainTargets == {bs58(1)}

ChainCommitInitialVersion == CommitInitialVersionWith(MaxChainIds, {NoneName}, {NoneStr}, Envs)

ChainCommitVersion == CommitVersionWith(MaxChainIds, {NoneName}, {NoneStr}, Envs)

ChainAmendHead == AmendHeadWith(MaxChainIds, {NoneStr}, Envs)

ChainReset == ResetWith(ChainTargets)

NextChain ==
  \/ ModifyFile
  \/ ChainCommitInitialVersion
  \/ ChainCommitVersion
  \/ ChainAmendHead
  \/ ChainReset

\* One branch, with histories long enough for a chain of patches to reach its bound
SpecChain == Init /\ [][NextChain]_vars

\* ------------------------------------------------------------------ restoring to an output path

RestoreToOutput == RestoreWith(OutputArgs)

NextRestore ==
  \/ ModifyFile
  \/ CommitInitialVersion
  \/ CommitVersion
  \/ CheckOut
  \/ RestoreToOutput
  \/ Discard

\* Commits, check_out, discard, and restore to the versioned file or to an output path
SpecRestore == Init /\ [][NextRestore]_vars

\* ------------------------------------------------------------------ crashes between file-system steps

\* The operation has decided to go on: its file-system steps are still to be made
Begin(outcome, env) ==
  /\ Idle
  /\ outcome.result = "Ok"
  /\ outcome.steps # <<>>
  /\ pending' = [steps |-> outcome.steps, env |-> env]
  /\ UNCHANGED <<data_file, backups, blobs, versioned_file, output_file, now, next_id, committed,
               other_pending>>

BeginCommitInitialVersion ==
  \E branch \in BranchArgs, env \in AllEnvs :
    /\ next_id <= MaxIds
    /\ Begin(commit_initial_version(Disk, env, branch, NoneStr, next_id, now), env)

BeginCommitVersion ==
  /\ Initialized
  /\ \E new_branch \in BranchArgs, env \in AllEnvs :
       /\ next_id <= MaxIds
       /\ Begin(commit_version(Disk, env, new_branch, NoneStr, next_id, now), env)

BeginAmendHead ==
  /\ Initialized
  /\ \E env \in AllEnvs :
       /\ next_id <= MaxIds
       /\ Begin(amend_head(Disk, env, NoneStr, next_id, now), env)

\* The running operation makes its next file-system step; a step that fails ends it
StepOperation ==
  /\ pending.steps # <<>>
  /\ LET r == ExecStep(Disk, Head(pending.steps), pending.env, now)
     IN  /\ SetDisk(r.disk)
         /\ pending' = IF r.status = "Ok" /\ Len(pending.steps) > 1
                       THEN [pending EXCEPT !.steps = Tail(@)]
                       ELSE NoPending
  /\ UNCHANGED <<now, other_pending>>

\* The process dies between two file-system steps
Crash ==
  /\ pending.steps # <<>>
  /\ pending' = NoPending
  /\ UNCHANGED <<data_file, backups, blobs, versioned_file, output_file, now, next_id, committed,
               other_pending>>

NextCrash ==
  \/ ModifyFile
  \/ BeginCommitInitialVersion
  \/ BeginCommitVersion
  \/ BeginAmendHead
  \/ StepOperation
  \/ Crash
  \/ CheckOut
  \/ Reset
  \/ DeleteBranch

\* The committing operations one file-system step at a time, with crashes
SpecCrash == Init /\ [][NextCrash]_vars


\* ------------------------------------------------------------------ amending along a long chain

DescribedCommitInitialVersion == CommitInitialVersionWith(MaxChainIds, {NoneName}, {NoneStr}, {NoEnv})

DescribedCommitVersion == CommitVersionWith(MaxChainIds, BranchArgs, {NoneStr}, {NoEnv})

DescribedAmendHead == AmendHeadWith(MaxChainIds, DescriptionArgs, {NoEnv})

NextAmend ==
  \/ ModifyFile
  \/ DescribedCommitInitialVersion
  \/ DescribedCommitVersion
  \/ DescribedAmendHead

\* Commits without a description on two branches, amends with and without one, with
\* histories long enough for an amend to meet the bound of the patch chain
SpecAmend == Init /\ [][NextAmend]_vars

\* ------------------------------------------------------------------ branch names that read as other targets

\* the names a commit can give a branch: the empty name, offsets, the Base58 text of
\* the first id, the nickname of the first version, a plain name
ResolveNames ==
  {<<>>, <<"~">>, <<"~", "1">>, bs58(1), new_nickname(xxh3_128(FreshContent(1))), Name_main}

ResolveTargets ==
  ResolveNames \cup {<<"~", "0">>, <<"~", "2">>, <<"~", "3">>, <<"~", "+", "1">>, <<"~", "0", "1">>,
                     <<"~", "x">>, bs58(2), bs58(3), Name_feat}

ResolveCommitInitialVersion ==
  CommitInitialVersionWith(MaxIds, {NoneName} \cup {Some(b) : b \in ResolveNames}, {NoneStr}, {NoEnv})

ResolveCommitVersion ==
  CommitVersionWith(MaxIds, {NoneName} \cup {Some(b) : b \in ResolveNames}, {NoneStr}, {NoEnv})

ResolveCheckOut ==
  /\ Initialized
  /\ \E target \in ResolveTargets : Invoke(check_out(Disk, target), NoEnv)

NextResolve ==
  \/ ModifyFile
  \/ ResolveCommitInitialVersion
  \/ ResolveCommitVersion
  \/ ResolveCheckOut

\* Commits that name their branch like an offset, an id or a nickname, and check-outs
\* by every kind of target
SpecResolve == Init /\ [][NextResolve]_vars

\* ------------------------------------------------------------------ writes spaced in time

\* the seconds between two writes: below, at and above the minimum ages of the
\* generations
TickDeltas == {5, 10, 300, 3600, 18000, 86400}

\* the writes of one history: the first commit and six more
MaxBackupIds == 7

\* The clock advances once between two writes, while the edited file waits for its
\* commit
Tick ==
  /\ Idle
  /\ Initialized
  /\ data_file.modified = now
  /\ versioned_file.exists
  /\ xxh3_128(versioned_file.bytes) # head_version(data_file.data).versioned_file_xxh3_128
  /\ \E delta \in TickDeltas : now' = now + delta
  /\ UNCHANGED <<data_file, backups, blobs, versioned_file, output_file, next_id, committed, pending,
               other_pending>>

TimedCommitInitialVersion == CommitInitialVersionWith(MaxBackupIds, {NoneName}, {NoneStr}, {NoEnv})

TimedCommitVersion == CommitVersionWith(MaxBackupIds, {NoneName}, {NoneStr}, {NoEnv})

NextBackup ==
  \/ ModifyFile
  \/ Tick
  \/ TimedCommitInitialVersion
  \/ TimedCommitVersion

\* Commits on one branch with the clock advancing between them
SpecBackup == Init /\ [][NextBackup]_vars

\* ------------------------------------------------------------------ writes just before a generation is due

\* the times between two writes: a write 23 h after another and one an hour later
\* find the oldest generation due and the one before it refreshed an hour ago
StaggerDeltas == {10, 300, 3600, 82800}

StaggeredTick ==
  /\ Idle
  /\ Initialized
  /\ data_file.modified = now
  /\ versioned_file.exists
  /\ xxh3_128(versioned_file.bytes) # head_version(data_file.data).versioned_file_xxh3_128
  /\ \E delta \in StaggerDeltas : now' = now + delta
  /\ UNCHANGED <<data_file, backups, blobs, versioned_file, output_file, next_id, committed, pending,
               other_pending>>

NextStagger ==
  \/ ModifyFile
  \/ StaggeredTick
  \/ TimedCommitInitialVersion
  \/ TimedCommitVersion

\* Commits on one branch, some of them just before a backup generation is due
SpecStagger == Init /\ [][NextStagger]_vars

\* ------------------------------------------------------------------ two processes on one repository

\* VersionId::new() is called at most MaxConcurrentIds times by the two processes.
MaxConcurrentIds == 3

ConcurrentTargets == {Name_main, bs58(1)}

\* A step of either process changes the files; the ids the processes have drawn stay
\* drawn
ConcurrentSetDisk(disk) ==
  /\ data_file' = disk.data_file
  /\ backups' = disk.backups
  /\ blobs' = disk.blobs
  /\ versioned_file' = disk.versioned_file
  /\ output_file' = disk.output_file
  /\ committed' = Committed(disk)

\* The first process has loaded data.json and decided to go on; VersionId::new() is
\* random, so the id it has drawn is not drawn again
FirstBegins(outcome) ==
  /\ pending = NoPending
  /\ outcome.result = "Ok"
  /\ outcome.steps # <<>>
  /\ outcome.minted => next_id <= MaxConcurrentIds
  /\ pending' = [steps |-> outcome.steps, env |-> NoEnv]
  /\ next_id' = IF outcome.minted THEN next_id + 1 ELSE next_id
  /\ UNCHANGED <<data_file, backups, blobs, versioned_file, output_file, now, committed, other_pending>>

\* The second process has loaded data.json and decided to go on
SecondBegins(outcome) ==
  /\ other_pending = NoPending
  /\ outcome.result = "Ok"
  /\ outcome.steps # <<>>
  /\ outcome.minted => next_id <= MaxConcurrentIds
  /\ other_pending' = [steps |-> outcome.steps, env |-> NoEnv]
  /\ next_id' = IF outcome.minted THEN next_id + 1 ELSE next_id
  /\ UNCHANGED <<data_file, backups, blobs, versioned_file, output_file, now, committed, pending>>

EitherBegins(outcome) == FirstBegins(outcome) \/ SecondBegins(outcome)

\* The first process makes its next file-system step
FirstSteps ==
  /\ pending.steps # <<>>
  /\ LET r == ExecStep(Disk, Head(pending.steps), pending.env, now)
     IN  /\ ConcurrentSetDisk(r.disk)
         /\ pending' = IF r.status = "Ok" /\ Len(pending.steps) > 1
                       THEN [pending EXCEPT !.steps = Tail(@)]
                       ELSE NoPending
  /\ UNCHANGED <<now, next_id, other_pending>>

\* The second process makes its next file-system step
SecondSteps ==
  /\ other_pending.steps # <<>>
  /\ LET r == ExecStep(Disk, Head(other_pending.steps), other_pending.env, now)
     IN  /\ ConcurrentSetDisk(r.disk)
         /\ other_pending' = IF r.status = "Ok" /\ Len(other_pending.steps) > 1
                             THEN [other_pending EXCEPT !.steps = Tail(@)]
                             ELSE NoPending
  /\ UNCHANGED <<now, next_id, pending>>

\* the user edits the file while no process runs
ConcurrentModifyFile == other_pending = NoPending /\ ModifyFile

ConcurrentCommitInitialVersion ==
  /\ other_pending = NoPending
  /\ CommitInitialVersionWith(MaxConcurrentIds, {NoneName}, {NoneStr}, {NoEnv})

ConcurrentCommitVersion ==
  /\ Initialized
  /\ \E new_branch \in BranchArgs :
       EitherBegins(commit_version(Disk, NoEnv, new_branch, NoneStr, next_id, now))

ConcurrentAmendHead ==
  /\ Initialized
  /\ EitherBegins(amend_head(Disk, NoEnv, NoneStr, next_id, now))

ConcurrentCheckOut ==
  /\ Initialized
  /\ \E target \in ConcurrentTargets : EitherBegins(check_out(Disk, target))

ConcurrentReset ==
  /\ Initialized
  /\ EitherBegins(reset(Disk, bs58(1)))

ConcurrentRenameBranch ==
  /\ Initialized
  /\ \E old_name \in BranchNames, new_name \in BranchNames :
       EitherBegins(rename_branch(Disk, old_name, new_name))

ConcurrentDeleteBranch ==
  /\ Initialized
  /\ \E name \in BranchNames : EitherBegins(delete_branch(Disk, name))

NextConcurrent ==
  \/ ConcurrentModifyFile
  \/ ConcurrentCommitInitialVersion
  \/ ConcurrentCommitVersion
  \/ ConcurrentAmendHead
  \/ ConcurrentCheckOut
  \/ ConcurrentReset
  \/ ConcurrentRenameBranch
  \/ ConcurrentDeleteBranch
  \/ FirstSteps
  \/ SecondSteps

\* Two processes that each load data.json, decide, and make their file-system steps
\* in any interleaving
SpecConcurrent == Init /\ [][NextConcurrent]_vars
\* ------------------------------------------------------------------ properties

\* the documents on disk: data.json and its rolling backups
StoredDocuments ==
  (IF data_file.exists THEN {data_file.data} ELSE {})
    \cup {backups[k].data : k \in {j \in 1..5 : backups[j].exists}}

\* the versions of the document d, as a set
VersionsOf(d) == {d.versions[i] : i \in 1..Len(d.versions)}

\* what write_version_content does for the version v of data.json, with the delta
\* tool installed, when the file it writes to exists and is empty
Reconstructed(v) ==
  RunSteps([Disk EXCEPT !.versioned_file = FileOf(<<>>)],
           write_version_content(data_file.data, v, "versioned_file"), Env(TRUE, TRUE), now)

\* the versioned file holds what the head version holds, by hash
FileIsHead ==
  /\ Initialized
  /\ versioned_file.exists
  /\ head_resolves(data_file.data)
  /\ xxh3_128(versioned_file.bytes) = head_version(data_file.data).versioned_file_xxh3_128

\* the versioned file differs from what the head version holds
FileDiffersFromHead ==
  /\ Initialized
  /\ versioned_file.exists
  /\ head_resolves(data_file.data)
  /\ versioned_file.bytes # committed[head_version(data_file.data).id]

\* the version a committing operation is about to store
NewVersionOf(outcome) ==
  LET data == outcome.steps[Len(outcome.steps)].data
  IN  data.versions[Len(data.versions)]

\* C1: every document written to data.json (and so every backup copied from it) has
\* exactly one root version, parent references that name stored versions, a head
\* that names an existing branch or a stored version, branch tips that name stored
\* versions, and no two branches with the same tip.
C1_WrittenDocumentIsValid ==
  \A d \in StoredDocuments :
    LET ids == {v.id : v \in VersionsOf(d)}
    IN  /\ Cardinality({i \in 1..Len(d.versions) : d.versions[i].parent = NoId}) = 1
        /\ \A v \in VersionsOf(d) : v.parent # NoId => v.parent \in ids
        /\ d.head.tag = "Branch" => d.head.branch \in DOMAIN d.branches
        /\ d.head.tag = "Version" => d.head.version \in ids
        /\ \A b \in DOMAIN d.branches : d.branches[b] \in ids
        /\ \A a \in DOMAIN d.branches, b \in DOMAIN d.branches : a # b => d.branches[a] # d.branches[b]

\* a repository with two branches where a reset of the head branch onto the tip of
\* the other one is stopped at the write of data.json
C1_Witness ==
  /\ Initialized
  /\ Cardinality(DOMAIN data_file.data.branches) = 2
  /\ \E target \in ResetTargets :
       /\ reset(Disk, target).result = "Ok"
       /\ Result(reset(Disk, target), NoEnv) = "Panic"

\* C2: in every written document each stored version is a branch tip or an ancestor
\* of one.
C2_EveryVersionOnABranch ==
  \A d \in StoredDocuments :
    \A v \in VersionsOf(d) :
      \E b \in DOMAIN d.branches : v.id \in Range(iter_version_and_ancestors(d, d.branches[b]))

\* the newest version that was committed has been erased, and two older ones are
\* stored on the one branch that is left
C2_Witness ==
  /\ Initialized
  /\ Cardinality(DOMAIN data_file.data.branches) = 1
  /\ Len(data_file.data.versions) >= 2
  /\ \E id \in DOMAIN committed :
       /\ id \notin version_ids(data_file.data)
       /\ \A other \in version_ids(data_file.data) : other < id

\* C3: the base of every Patch version is an ancestor of the version whose own
\* blob is Full.
C3_PatchBaseIsFull ==
  Initialized =>
    \A v \in VersionsOf(data_file.data) :
      is_patch(v) =>
        /\ v.patch_base \in Range(iter_ancestors(data_file.data, v.parent))
        /\ ~is_patch(version(data_file.data, v.patch_base))

\* C4: write_version_content gives back, for every stored version, the bytes the
\* versioned file held when the version was committed.
C4_RoundTrip ==
  Initialized =>
    \A v \in VersionsOf(data_file.data) :
      /\ Reconstructed(v).status = "Ok"
      /\ Reconstructed(v).disk.versioned_file = FileOf(committed[v.id])

\* a Patch version whose base is itself a Patch version, while the versioned file
\* holds other bytes
C4_Witness ==
  /\ Initialized
  /\ \E v \in VersionsOf(data_file.data) :
       /\ is_patch(v)
       /\ is_patch(version(data_file.data, v.patch_base))
       /\ versioned_file.bytes # committed[v.id]

\* C5: at every point between the file-system steps of commit_initial_version,
\* commit_version and amend_head, every content blob and preview blob that the
\* data.json on disk names exists.
C5_NamedBlobsExist ==
  Initialized =>
    \A v \in VersionsOf(data_file.data) :
      /\ v.content_blob_file_name \in DOMAIN blobs
      /\ v.preview_blob_file_name # NoBlobName => v.preview_blob_file_name \in DOMAIN blobs

\* a commit on an initialized repository has written a blob and not yet data.json
C5_Witness ==
  /\ Initialized
  /\ pending.steps # <<>>
  /\ \E name \in DOMAIN blobs : name[1] \notin version_ids(data_file.data) \cup DOMAIN committed

\* C6: while the versioned file differs from the head version, check_out and restore
\* return BlockedByUncommittedChanges for every target, resolvable or not, and
\* leave the versioned file, the output path and data.json (the head with it) as
\* they are.
C6_BlockedByUncommittedChanges ==
  [][FileDiffersFromHead =>
       /\ \A target \in Targets :
            /\ check_out(Disk, target) = Refusal("BlockedByUncommittedChanges")
            /\ \A output \in OutputArgs :
                 restore(Disk, target, output) = Refusal("BlockedByUncommittedChanges")
       /\ (CheckOut \/ RestoreToOutput) => UNCHANGED <<versioned_file, output_file, data_file>>]_vars

\* the head is detached, the output path has been written, and the versioned file
\* holds bytes of the length of the head version but not its bytes
C6_Witness ==
  /\ FileDiffersFromHead
  /\ output_file.exists
  /\ data_file.data.head.tag = "Version"
  /\ FileLength(versioned_file.bytes) = head_version(data_file.data).versioned_file_length

\* C7: the root version is Full, and from any stored version upwards fewer than
\* MAX_CONSECUTIVE_PATCHES versions in a row are Patch versions, whether they were
\* made by commit_version or by amend_head.
C7_PatchChainBound ==
  Initialized =>
    \A v \in VersionsOf(data_file.data) :
      /\ v.parent = NoId => ~is_patch(v)
      /\ take_while_patch_count(data_file.data, iter_version_and_ancestors(data_file.data, v.id))
           < MAX_CONSECUTIVE_PATCHES

\* a chain of MAX_CONSECUTIVE_PATCHES - 1 Patch versions below a Full version that
\* is not the root
C7_Witness ==
  /\ Initialized
  /\ \E v \in VersionsOf(data_file.data) :
       /\ v.parent # NoId
       /\ ~is_patch(v)
       /\ take_while_patch_count(data_file.data, iter_ancestors(data_file.data, v.parent))
            = MAX_CONSECUTIVE_PATCHES - 1

\* C8: after eight commits in a row the first and the eighth version are Full and
\* the second to the seventh are Patch versions whose base is the Full blob of the
\* first.
C8_EightCommits ==
  (/\ Initialized
   /\ Len(data_file.data.versions) = 8
   /\ \A i \in 1..8 : data_file.data.versions[i].id = i /\ data_file.data.versions[i].parent = i - 1)
  => /\ ~is_patch(data_file.data.versions[1])
     /\ ~is_patch(data_file.data.versions[8])
     /\ \A i \in 2..7 :
          /\ is_patch(data_file.data.versions[i])
          /\ data_file.data.versions[i].patch_base = data_file.data.versions[1].id

\* C9: without the delta tool, commit_version and amend_head choose the Full kind
\* for the version they go on to store, and the operation succeeds.
C9_FullWithoutDeltaTool ==
  (Initialized /\ versioned_file.exists /\ head_resolves(data_file.data)) =>
    \A m \in BOOLEAN :
      /\ \A new_branch \in BranchArgs :
           LET outcome == commit_version(Disk, Env(FALSE, m), new_branch, NoneStr, next_id, now)
           IN  outcome.result = "Ok" =>
                 /\ ~is_patch(NewVersionOf(outcome))
                 /\ Result(outcome, Env(FALSE, m)) = "Ok"
      /\ LET outcome == amend_head(Disk, Env(FALSE, m), NoneStr, next_id, now)
         IN  outcome.result = "Ok" =>
               /\ ~is_patch(NewVersionOf(outcome))
               /\ Result(outcome, Env(FALSE, m)) = "Ok"

\* C10: while the hash of the versioned file is the hash of the head version,
\* commit_version returns NothingToCommit whatever its arguments, and a call changes
\* neither data.json, nor the backups, nor any blob.
C10_CommitIsIdempotent ==
  [][FileIsHead =>
       /\ \A new_branch \in BranchArgs, description \in DescriptionArgs, env \in AllEnvs :
            commit_version(Disk, env, new_branch, description, next_id, now)
              = Refusal("NothingToCommit")
       /\ CommitVersionWith(MaxIds, BranchArgs, DescriptionArgs, AllEnvs)
            => UNCHANGED <<data_file, backups, blobs, versioned_file>>]_vars

\* two versions have been committed, the second one on a branch of its own, and the
\* versioned file is what the head holds
C10_Witness ==
  /\ FileIsHead
  /\ Len(data_file.data.versions) >= 2
  /\ Cardinality(DOMAIN data_file.data.branches) = 2
  /\ backups[1].exists

\* ------------------------------------------------------------------ what the operations return and change

\* a call of an operation in the current state, run to its end
Ran(outcome, env) == RunSteps(Disk, outcome.steps, env, now)

\* the operation decided to go on and every one of its file-system steps succeeded
ReturnsOk(outcome, env) == outcome.result = "Ok" /\ Ran(outcome, env).status = "Ok"

\* the document in data.json after the call
DataAfter(outcome, env) == Ran(outcome, env).disk.data_file.data

\* the operation can be called: the repository is initialized, the versioned file
\* exists and the head resolves
Callable ==
  /\ Initialized
  /\ versioned_file.exists
  /\ head_resolves(data_file.data)

\* the hash of the versioned file is not the head version's
FileChanged ==
  xxh3_128(versioned_file.bytes) # head_version(data_file.data).versioned_file_xxh3_128

\* C11: when commit_version returns Ok, one version is appended and the versions that
\* were stored are as they were; the new version has an id that was not stored and
\* its parent is the version the head designated; the effective branch (new_branch,
\* else the branch the head was on) has the new version as its tip, created if it
\* did not exist; the head is Branch(effective); every other branch keeps its tip.
C11_CommitEffects ==
  Callable =>
    \A new_branch \in BranchArgs, description \in DescriptionArgs, env \in AllEnvs :
      LET outcome == commit_version(Disk, env, new_branch, description, next_id, now)
          d == data_file.data
          after == DataAfter(outcome, env)
          effective == IF new_branch.some THEN new_branch.value ELSE d.head.branch
          new_version == after.versions[Len(after.versions)]
      IN  ReturnsOk(outcome, env) =>
            /\ Len(after.versions) = Len(d.versions) + 1
            /\ SubSeq(after.versions, 1, Len(d.versions)) = d.versions
            /\ new_version.id \notin {v.id : v \in VersionsOf(d)}
            /\ new_version.parent = head_version(d).id
            /\ after.head = HeadBranch(effective)
            /\ DOMAIN after.branches = (DOMAIN d.branches) \cup {effective}
            /\ after.branches[effective] = new_version.id
            /\ \A b \in (DOMAIN d.branches) \ {effective} : after.branches[b] = d.branches[b]

\* the head is detached at a version that is no tip of the one branch there is,
\* the file has changed, and a commit with a new branch returns Ok
C11_Witness ==
  /\ Callable
  /\ data_file.data.head.tag = "Version"
  /\ Cardinality(DOMAIN data_file.data.branches) = 1
  /\ \A b \in DOMAIN data_file.data.branches : data_file.data.branches[b] # data_file.data.head.version
  /\ \E new_branch \in BranchArgs :
       /\ new_branch.some
       /\ ReturnsOk(commit_version(Disk, NoEnv, new_branch, NoneStr, next_id, now), NoEnv)

\* the result the checks of commit_version give for a new_branch argument
ExpectedCommitResult(new_branch) ==
  IF ~FileChanged THEN "NothingToCommit"
  ELSE IF new_branch.some /\ new_branch.value \in DOMAIN data_file.data.branches THEN "BranchAlreadyExists"
  ELSE IF ~new_branch.some /\ data_file.data.head.tag = "Version" THEN "BranchRequired"
  ELSE "Ok"

\* C12: commit_version returns NothingToCommit on an unchanged file whatever new_branch
\* and the head are; on a changed file it returns BranchAlreadyExists exactly when
\* new_branch names an existing branch, BranchRequired exactly when new_branch is
\* absent and the head is detached, and Ok otherwise, in every environment.
C12_CommitResult ==
  Callable =>
    \A new_branch \in BranchArgs, description \in DescriptionArgs, env \in AllEnvs :
      Result(commit_version(Disk, env, new_branch, description, next_id, now), env)
        = ExpectedCommitResult(new_branch)

\* C12, for the checks alone: what commit_version decides before its first write is
\* the result of the table, and with the delta tool installed the call ends with it.
C12_CommitDecision ==
  Callable =>
    \A new_branch \in BranchArgs, description \in DescriptionArgs, env \in AllEnvs :
      LET outcome == commit_version(Disk, env, new_branch, description, next_id, now)
      IN  /\ outcome.result = ExpectedCommitResult(new_branch)
          /\ env.xdelta3_ready => Result(outcome, env) = ExpectedCommitResult(new_branch)

\* the targets of check_out and restore: branch names, ids, offsets, the nicknames of
\* the stored versions, and the empty target
AllTargets ==
  Targets \cup {<<"~">>, <<"~", "2">>} \cup {v.nickname : v \in VersionsOf(data_file.data)}

\* target names the version id: as its Base58 form, as an offset from the head, or
\* as its nickname
NamesVersion(target, id) ==
  LET d == data_file.data
      chain == iter_head_and_ancestors(d)
  IN  \/ target = bs58(id)
      \/ target = <<"~">> /\ id = chain[1]
      \/ target = <<"~", "1">> /\ Len(chain) >= 2 /\ id = chain[2]
      \/ target = <<"~", "2">> /\ Len(chain) >= 3 /\ id = chain[3]
      \/ \E v \in VersionsOf(d) : v.id = id /\ v.nickname = target

\* C13: when check_out returns Ok, the head is Branch(target) if the target is a
\* branch name and Version(id) if the target names the version id as an id, an
\* offset or a nickname; branches and versions are as before; the versioned file
\* holds the bytes committed for the new head version, and has_uncommitted_changes
\* returns false.
C13_CheckOutEffects ==
  Callable =>
    \A target \in AllTargets, env \in DeltaEnvs :
      LET outcome == check_out(Disk, target)
          d == data_file.data
          after == DataAfter(outcome, env)
      IN  ReturnsOk(outcome, env) =>
            /\ target \in DOMAIN d.branches => after.head = HeadBranch(target)
            /\ target \notin DOMAIN d.branches =>
                 /\ after.head.tag = "Version"
                 /\ has_version(d, after.head.version)
                 /\ NamesVersion(target, after.head.version)
            /\ after.branches = d.branches
            /\ after.versions = d.versions
            /\ Ran(outcome, env).disk.versioned_file = FileOf(committed[head_version(after).id])
            /\ has_uncommitted_changes(Ran(outcome, env).disk) = "false"

\* three versions on one branch with the head on it and the file unchanged: check_out
\* of the offset ~2 returns Ok, and so does check_out of the nickname of a Patch version
C13_Witness ==
  /\ Callable
  /\ data_file.data.head.tag = "Branch"
  /\ Len(iter_head_and_ancestors(data_file.data)) = 3
  /\ ReturnsOk(check_out(Disk, <<"~", "2">>), NoEnv)
  /\ \E v \in VersionsOf(data_file.data) :
       is_patch(v) /\ v.id # head_version(data_file.data).id /\ ReturnsOk(check_out(Disk, v.nickname), NoEnv)

\* the version a target of restore stands for: the tip of the branch it names, else
\* the version it names
RestoresVersion(target, id) ==
  IF target \in DOMAIN data_file.data.branches THEN id = data_file.data.branches[target]
  ELSE NamesVersion(target, id)

\* C14: restore never writes data.json or a backup, whatever the target, the output
\* path and the way the call ends, so head, branches and versions stay as they are;
\* when it returns Ok the output path (the versioned file by default) holds the
\* bytes committed for the target version, and the other of the two files is as
\* it was.
C14_RestoreFrame ==
  Callable =>
    \A target \in AllTargets, output \in OutputArgs, env \in DeltaEnvs :
      LET outcome == restore(Disk, target, output)
          after == Ran(outcome, env).disk
      IN  /\ after.data_file = data_file
          /\ after.backups = backups
          /\ after.blobs = blobs
          /\ ReturnsOk(outcome, env) =>
               \E id \in version_ids(data_file.data) :
                 /\ RestoresVersion(target, id)
                 /\ IF output.some
                    THEN after.output_file = FileOf(committed[id]) /\ after.versioned_file = versioned_file
                    ELSE after.versioned_file = FileOf(committed[id]) /\ after.output_file = output_file

\* restore has written the output path with the bytes of a version that is not the
\* head, and a restore of a Patch version to that path returns Ok
C14_Witness ==
  /\ Callable
  /\ output_file.exists
  /\ output_file.bytes # committed[head_version(data_file.data).id]
  /\ \E v \in VersionsOf(data_file.data) :
       /\ is_patch(v)
       /\ output_file.bytes # committed[v.id]
       /\ ReturnsOk(restore(Disk, bs58(v.id), Some("output_file")), NoEnv)

\* the length of the versioned file is not the head version's stored length
LengthChanged ==
  FileLength(versioned_file.bytes) # head_version(data_file.data).versioned_file_length

\* C15: has_uncommitted_changes returns true exactly when the hash of the versioned
\* file differs from the hash stored in the head version, and false otherwise; a
\* file whose length differs from the head's stored length (the fast path, which
\* answers true without hashing) always has a different hash too.
C15_HasUncommittedChanges ==
  Callable =>
    /\ has_uncommitted_changes(Disk) = (IF FileChanged THEN "true" ELSE "false")
    /\ LengthChanged => FileChanged

\* the versioned file has the head's stored length and other bytes, so the answer
\* comes from the comparison of the hashes
C15_Witness ==
  /\ Callable
  /\ ~LengthChanged
  /\ versioned_file.bytes # committed[head_version(data_file.data).id]
  /\ has_uncommitted_changes(Disk) = "true"

\* C16: when discard returns Ok the versioned file holds the bytes committed for the
\* head version, so has_uncommitted_changes is false, and data.json (head, branches,
\* versions), the backups and the blobs are as they were.
C16_DiscardRestoresHead ==
  Callable =>
    \A env \in DeltaEnvs :
      LET outcome == discard(Disk)
          after == Ran(outcome, env).disk
      IN  ReturnsOk(outcome, env) =>
            /\ after.versioned_file = FileOf(committed[head_version(data_file.data).id])
            /\ has_uncommitted_changes(after) = "false"
            /\ after.data_file = data_file
            /\ after.backups = backups
            /\ after.blobs = blobs

\* the versioned file was edited after the commit of a Patch head that is not the
\* newest entry of versions, and discard returns Ok
C16_Witness ==
  /\ Callable
  /\ FileChanged
  /\ is_patch(head_version(data_file.data))
  /\ head_version(data_file.data) # data_file.data.versions[Len(data_file.data.versions)]
  /\ ReturnsOk(discard(Disk), NoEnv)

\* the number of Patch versions in a row from version id upwards
RECURSIVE PatchRun(_, _)
PatchRun(d, id) ==
  IF id = NoId \/ ~has_version(d, id) THEN 0
  ELSE IF ~is_patch(version(d, id)) THEN 0
  ELSE 1 + PatchRun(d, version(d, id).parent)

ExpectedAmendResult ==
  LET d == data_file.data
      head == head_version(d)
      file_hash == xxh3_128(versioned_file.bytes)
  IN  IF ~FileChanged THEN "NoUncommittedChanges"
      ELSE IF d.head.tag # "Branch" THEN "HeadMustBeBranch"
      ELSE IF \E v \in VersionsOf(d) : v.parent = head.id THEN "CannotAmendParent"
      ELSE IF \E p \in VersionsOf(d) : p.id = head.parent /\ p.versioned_file_xxh3_128 = file_hash
           THEN "HeadEqualsParent"
      ELSE "Ok"

\* C18: amend_head answers NoUncommittedChanges when the hash of the file is the
\* head's; else HeadMustBeBranch when the head is detached; else CannotAmendParent
\* when the head version has a child; else HeadEqualsParent when the head's parent
\* has the hash of the file; a refusal writes nothing, and only when none applies
\* does it go on to write the amended version.
C18_AmendRefusalOrder ==
  Callable =>
    \A description \in DescriptionArgs, env \in AllEnvs :
      LET outcome == amend_head(Disk, env, description, next_id, now)
      IN  /\ outcome.result = ExpectedAmendResult
          /\ outcome.steps = <<>> <=> ExpectedAmendResult # "Ok"
          /\ ExpectedAmendResult # "Ok" => Ran(outcome, env).disk = Disk

\* the head is detached at a version that has a child, and the file holds the bytes
\* of the head's parent: three refusals apply and the answer is HeadMustBeBranch
C18_Witness ==
  /\ Callable
  /\ FileChanged
  /\ data_file.data.head.tag = "Version"
  /\ iter_children(data_file.data, head_version(data_file.data).id) # {}
  /\ head_version(data_file.data).parent # NoId
  /\ versioned_file.bytes = committed[head_version(data_file.data).parent]
  /\ amend_head(Disk, NoEnv, NoneStr, next_id, now).result = "HeadMustBeBranch"

\* C19: reword(target, d) returns Ok when target is the Base58 text of the id of a
\* stored version, and then the document written has d as that version's
\* description and is otherwise the document before (every other field of every
\* version, the order of the versions, head and branches), and no blob and neither
\* file is touched; for every other target (a branch name, an offset, a nickname,
\* the empty text, the Base58 text of an id that is not stored) it returns
\* InvalidTarget and writes nothing.
C19_RewordFrame ==
  Initialized =>
    \A target \in AllTargets, description \in Descriptions :
      LET outcome == reword(Disk, target, description)
          d == data_file.data
          after == Ran(outcome, NoEnv).disk
      IN  IF \E id \in version_ids(d) : target = bs58(id)
          THEN /\ ReturnsOk(outcome, NoEnv)
               /\ after.data_file.data.head = d.head
               /\ after.data_file.data.branches = d.branches
               /\ Len(after.data_file.data.versions) = Len(d.versions)
               /\ \A i \in 1..Len(d.versions) :
                    after.data_file.data.versions[i] =
                      (IF target = bs58(d.versions[i].id)
                       THEN [d.versions[i] EXCEPT !.description = description]
                       ELSE d.versions[i])
               /\ after.blobs = blobs
               /\ after.versioned_file = versioned_file
               /\ after.output_file = output_file
          ELSE /\ outcome.result = "InvalidTarget"
               /\ after = Disk

\* three versions are stored, the first with a description and the others without,
\* the head is on a branch whose tip has a nickname; a reword of the second version
\* returns Ok and a reword by branch name, by offset or by nickname does not
C19_Witness ==
  /\ Initialized
  /\ Len(data_file.data.versions) = 3
  /\ data_file.data.head.tag = "Branch"
  /\ \E v \in VersionsOf(data_file.data) : v.id = 1 /\ v.description = "v"
  /\ \E v \in VersionsOf(data_file.data) : v.id # 1 /\ v.description # "v"
  /\ \E v \in VersionsOf(data_file.data) :
       /\ v.id # 1
       /\ ReturnsOk(reword(Disk, bs58(v.id), "v"), NoEnv)
       /\ reword(Disk, v.nickname, "v").result = "InvalidTarget"
  /\ reword(Disk, data_file.data.head.branch, "v").result = "InvalidTarget"
  /\ reword(Disk, <<"~">>, "v").result = "InvalidTarget"

\* the erased set of reset: the versions of the chain from the head to the root that
\* come before target_id, all of the chain when target_id is not on it
ErasedSet(target_id) ==
  LET chain == iter_head_and_ancestors(data_file.data)
  IN  {chain[i] : i \in {k \in 1..Len(chain) : \A j \in 1..k : chain[j] # target_id}}

\* what reset(target) is to answer
ExpectedResetResult(target) ==
  LET d == data_file.data
      E == ErasedSet(CHOOSE id \in version_ids(d) : target = bs58(id))
  IN  IF d.head.tag # "Branch" THEN "HeadMustBeBranch"
      ELSE IF ~\E id \in version_ids(d) : target = bs58(id) THEN "InvalidTarget"
      ELSE IF \E v \in VersionsOf(d) : v.id \in E /\ v.parent = NoId THEN "InvalidTarget"
      ELSE IF \/ \E v \in VersionsOf(d) : v.parent = head_version(d).id
              \/ \E v \in VersionsOf(d) : v.parent \in E /\ v.id \notin E
           THEN "CannotLeaveOrphans"
      ELSE "Ok"

\* C20: reset(target) returns HeadMustBeBranch when the head is detached; else
\* InvalidTarget when target is not the Base58 text of a stored id or the erased set
\* holds the root; else CannotLeaveOrphans exactly when the head version has a child
\* or an erased version has a child that is not erased; else Ok.
C20_ResetResult ==
  Callable =>
    \A target \in AllTargets : Result(reset(Disk, target), NoEnv) = ExpectedResetResult(target)

\* the checks of reset decide as the table of C20 says, a refusal writes nothing, and
\* the call returns what they decide unless another branch than the head's has its
\* tip at the target or in the erased set, where the document to write has two
\* branches with one tip, or a branch whose tip is not stored, and write_data_file
\* panics
C20_ResetDecision ==
  Callable =>
    \A target \in AllTargets :
      LET outcome == reset(Disk, target)
          d == data_file.data
      IN  /\ outcome.result = ExpectedResetResult(target)
          /\ outcome.result # "Ok" => Ran(outcome, NoEnv).disk = Disk
          /\ outcome.result = "Ok" =>
               Result(outcome, NoEnv) =
                 (IF \E b \in DOMAIN d.branches :
                       /\ b # d.head.branch
                       /\ \/ target = bs58(d.branches[b])
                          \/ d.branches[b] \in ErasedSet(CHOOSE id \in version_ids(d) : target = bs58(id))
                  THEN "Panic" ELSE "Ok")

\* reset to the tip of another branch than the head's passes every check and panics
\* in write_data_file
C20_PanicReached ==
  /\ Callable
  /\ \E b \in DOMAIN data_file.data.branches :
       /\ b # data_file.data.head.branch
       /\ reset(Disk, bs58(data_file.data.branches[b])).result = "Ok"
       /\ Result(reset(Disk, bs58(data_file.data.branches[b])), NoEnv) = "Panic"

\* the document reset(target) is to persist: the versions of the erased set removed,
\* the head's branch at the target, the rest as it was
ResetPersists(target, after) ==
  LET d == data_file.data
      t == CHOOSE id \in version_ids(d) : target = bs58(id)
      E == ErasedSet(t)
  IN  /\ after.data_file.data.head = d.head
      /\ DOMAIN after.data_file.data.branches = DOMAIN d.branches
      /\ \A b \in DOMAIN d.branches :
           after.data_file.data.branches[b] = (IF b = d.head.branch THEN t ELSE d.branches[b])
      /\ VersionsOf(after.data_file.data) = {v \in VersionsOf(d) : v.id \notin E}
      /\ Len(after.data_file.data.versions) = Len(d.versions) - Cardinality(E)
      /\ after.versioned_file = versioned_file
      /\ after.blobs = blobs

\* C21: whenever no refusal of reset applies, reset returns Ok and the document it
\* has persisted has exactly the versions of the erased set removed and the head's
\* branch at the target; the head, the other branches, the remaining versions and
\* the versioned file are as they were.
C21_ResetEffects ==
  Callable =>
    \A target \in AllTargets :
      ExpectedResetResult(target) = "Ok" =>
        /\ ReturnsOk(reset(Disk, target), NoEnv)
        /\ ResetPersists(target, Ran(reset(Disk, target), NoEnv).disk)

\* whenever reset does return Ok, the document it has persisted is the one C21
\* describes
C21_ResetEffectsOnOk ==
  Callable =>
    \A target \in AllTargets :
      ReturnsOk(reset(Disk, target), NoEnv) =>
        ResetPersists(target, Ran(reset(Disk, target), NoEnv).disk)

\* a reset that erases two versions returns Ok
C21_OkReached ==
  /\ Callable
  /\ \E target \in IdTexts :
       /\ ReturnsOk(reset(Disk, target), NoEnv)
       /\ Len(Ran(reset(Disk, target), NoEnv).disk.data_file.data.versions) = Len(data_file.data.versions) - 2

\* the document rename_branch(old_name, new_name) is to persist
RenamePersists(old_name, new_name, after) ==
  LET d == data_file.data
      a == after.data_file.data
  IN  /\ DOMAIN a.branches = ((DOMAIN d.branches) \ {old_name}) \cup {new_name}
      /\ a.branches[new_name] = d.branches[old_name]
      /\ \A b \in (DOMAIN d.branches) \ {old_name} : a.branches[b] = d.branches[b]
      /\ a.versions = d.versions
      /\ \/ a.head.tag = "Branch" /\ a.head.branch \in DOMAIN a.branches
         \/ a.head.tag = "Version" /\ has_version(a, a.head.version)

\* C22: for old_name an existing branch and new_name another name that is no branch,
\* rename_branch returns Ok and the document it has persisted has new_name at the
\* former tip of old_name and no old_name, the other branches and the versions as
\* they were, and a head that references a known branch or version.
C22_RenameEffects ==
  Initialized =>
    \A old_name \in BranchNames, new_name \in BranchNames :
      (old_name # new_name /\ old_name \in DOMAIN data_file.data.branches
                           /\ new_name \notin DOMAIN data_file.data.branches) =>
        /\ ReturnsOk(rename_branch(Disk, old_name, new_name), NoEnv)
        /\ RenamePersists(old_name, new_name, Ran(rename_branch(Disk, old_name, new_name), NoEnv).disk)

\* a rename of a branch the head is not on returns Ok with the effects of C22; a
\* rename of the head's branch leaves the head on a name that is no branch any more,
\* write_data_file panics and nothing is written
C22_RenameOffHead ==
  Initialized =>
    \A old_name \in BranchNames, new_name \in BranchNames :
      (old_name # new_name /\ old_name \in DOMAIN data_file.data.branches
                           /\ new_name \notin DOMAIN data_file.data.branches) =>
        LET outcome == rename_branch(Disk, old_name, new_name)
        IN  IF data_file.data.head = HeadBranch(old_name)
            THEN Result(outcome, NoEnv) = "Panic" /\ Ran(outcome, NoEnv).disk = Disk
            ELSE ReturnsOk(outcome, NoEnv) /\ RenamePersists(old_name, new_name, Ran(outcome, NoEnv).disk)

\* a branch the head is not on can be renamed, and the call returns Ok
C22_OkReached ==
  /\ Initialized
  /\ \E old_name \in BranchNames, new_name \in BranchNames :
       /\ old_name # new_name
       /\ old_name \in DOMAIN data_file.data.branches
       /\ ReturnsOk(rename_branch(Disk, old_name, new_name), NoEnv)

\* the tip of a branch and its ancestors, stated from the parent links
RECURSIVE AncestorsOrSelf(_, _)
AncestorsOrSelf(d, id) ==
  IF id = NoId \/ ~\E v \in VersionsOf(d) : v.id = id THEN {}
  ELSE {id} \cup AncestorsOrSelf(d, (CHOOSE v \in VersionsOf(d) : v.id = id).parent)

\* the erased set of delete_branch(name): the versions on name that are on no other
\* branch
DeletedSet(name) ==
  LET d == data_file.data
  IN  AncestorsOrSelf(d, d.branches[name]) \
        UNION {AncestorsOrSelf(d, d.branches[b]) : b \in (DOMAIN d.branches) \ {name}}

\* C23: when delete_branch(name) returns Ok, the branch name is gone and the versions
\* removed are exactly the tip of name and its ancestors that are neither the tip
\* nor an ancestor of the tip of another branch; the versions on another branch,
\* the other branches and the head are as they were, and neither file is touched.
C23_DeleteEffects ==
  Initialized =>
    \A name \in BranchNames :
      LET outcome == delete_branch(Disk, name)
          d == data_file.data
          after == Ran(outcome, NoEnv).disk
          a == after.data_file.data
      IN  ReturnsOk(outcome, NoEnv) =>
            /\ name \in DOMAIN d.branches
            /\ DOMAIN a.branches = (DOMAIN d.branches) \ {name}
            /\ \A b \in DOMAIN a.branches : a.branches[b] = d.branches[b]
            /\ version_ids(d) \ version_ids(a) = DeletedSet(name)
            /\ VersionsOf(a) = {v \in VersionsOf(d) : v.id \notin DeletedSet(name)}
            /\ Len(a.versions) = Len(d.versions) - Cardinality(DeletedSet(name))
            /\ a.head = d.head
            /\ after.versioned_file = versioned_file
            /\ after.blobs = blobs

\* the head is on one branch, another branch has a version of its own and shares an
\* ancestor with the head's, and the deletion of that other branch returns Ok
C23_Witness ==
  /\ Initialized
  /\ \E name \in DOMAIN data_file.data.branches :
       /\ data_file.data.head.tag = "Branch"
       /\ data_file.data.head.branch # name
       /\ DeletedSet(name) # {}
       /\ DeletedSet(name) # AncestorsOrSelf(data_file.data, data_file.data.branches[name])
       /\ ReturnsOk(delete_branch(Disk, name), NoEnv)

\* C24: when the head is on the branch name, or detached at a version of the erased
\* set of name, delete_branch(name) returns CannotDeleteHead and writes nothing.
C24_CannotDeleteHead ==
  Initialized =>
    \A name \in DOMAIN data_file.data.branches :
      (\/ data_file.data.head = HeadBranch(name)
       \/ data_file.data.head.tag = "Version" /\ data_file.data.head.version \in DeletedSet(name)) =>
        /\ Result(delete_branch(Disk, name), NoEnv) = "CannotDeleteHead"
        /\ Ran(delete_branch(Disk, name), NoEnv).disk = Disk

\* delete_branch(name) answers CannotDeleteHead exactly when the head version is in
\* the erased set of name, whatever the head is on; with the head on name and the tip
\* of name on another branch too, it goes on, the document to write has its head on
\* a branch that is gone and write_data_file panics; nothing is written in either case
C24_DeleteHeadDecision ==
  Initialized =>
    \A name \in DOMAIN data_file.data.branches :
      LET outcome == delete_branch(Disk, name)
          d == data_file.data
      IN  /\ outcome.result = "CannotDeleteHead" <=> head_version(d).id \in DeletedSet(name)
          /\ (d.head = HeadBranch(name) /\ head_version(d).id \notin DeletedSet(name)) =>
               Result(outcome, NoEnv) = "Panic"
          /\ (d.head = HeadBranch(name) \/ outcome.result = "CannotDeleteHead") =>
               Ran(outcome, NoEnv).disk = Disk

\* the head is on a branch whose tip is an ancestor of the tip of another branch
C24_PanicReached ==
  /\ Initialized
  /\ \E name \in DOMAIN data_file.data.branches :
       /\ data_file.data.head = HeadBranch(name)
       /\ DeletedSet(name) = {}
       /\ Result(delete_branch(Disk, name), NoEnv) = "Panic"

\* C25: for every text S, resolve_target returns Branch(S) if and only if S is the
\* name of a branch, also when S decodes to a stored id, is an offset or is the
\* nickname of a version.
C25_BranchIffNamed ==
  Initialized =>
    \A S \in ResolveTargets :
      resolve_target(data_file.data, S) = TargetBranch(S) <=> S \in DOMAIN data_file.data.branches

\* the same for every text but the empty one, which resolve_target answers with
\* Invalid before it looks at the branches; and no text resolves to a branch of
\* another name
C25_BranchIffNamedNonEmpty ==
  Initialized =>
    \A S \in ResolveTargets :
      /\ S # <<>> =>
           (resolve_target(data_file.data, S) = TargetBranch(S) <=> S \in DOMAIN data_file.data.branches)
      /\ S = <<>> => resolve_target(data_file.data, S) = TargetInvalid
      /\ resolve_target(data_file.data, S).tag = "Branch" => resolve_target(data_file.data, S).branch = S

\* three branches are named like the id of the first version, like its nickname
\* and like the offset ~1, with a parent for the head version
C25_NamesReached ==
  /\ Initialized
  /\ {bs58(1), new_nickname(xxh3_128(FreshContent(1))), <<"~", "1">>} \subseteq DOMAIN data_file.data.branches
  /\ has_version(data_file.data, 1)
  /\ Len(iter_head_and_ancestors(data_file.data)) >= 2

\* a branch has the empty name
C25_EmptyNameReached ==
  /\ Initialized
  /\ <<>> \in DOMAIN data_file.data.branches

\* the n-th ancestor of version id along the parent links, NoId past the root
RECURSIVE NthAncestor(_, _, _)
NthAncestor(d, id, n) ==
  IF id = NoId \/ ~\E v \in VersionsOf(d) : v.id = id THEN NoId
  ELSE IF n = 0 THEN id
  ELSE NthAncestor(d, (CHOOSE v \in VersionsOf(d) : v.id = id).parent, n - 1)

\* the text of the offset ~N, for one digit
OffsetText(n) == <<"~", DIGITS[n + 1]>>

\* the greatest offset tried
MaxOffset == 4

\* C26: for a target that is no branch name, ~ resolves to the head version and ~N
\* to the N-th ancestor of the head along the parent links, ~0 being the head itself
\* and the greatest N that resolves being the root; ~N with N past the root resolves
\* to Invalid.
C26_Offsets ==
  (Initialized /\ head_resolves(data_file.data)) =>
    LET d == data_file.data
        h == head_version(d).id
    IN  /\ <<"~">> \notin DOMAIN d.branches => resolve_target(d, <<"~">>) = TargetVersion(h)
        /\ \A n \in 0..MaxOffset :
             OffsetText(n) \notin DOMAIN d.branches =>
               resolve_target(d, OffsetText(n)) =
                 (IF NthAncestor(d, h, n) # NoId THEN TargetVersion(NthAncestor(d, h, n)) ELSE TargetInvalid)
        /\ \A n \in 0..MaxOffset :
             (NthAncestor(d, h, n) # NoId /\ NthAncestor(d, h, n + 1) = NoId) =>
               \E v \in VersionsOf(d) : v.id = NthAncestor(d, h, n) /\ v.parent = NoId

\* the head is detached at the second of three versions in a row, so that ~1 is the
\* root, ~2 is past the root and the newest version is no ancestor of the head
C26_Witness ==
  /\ Initialized
  /\ data_file.data.head.tag = "Version"
  /\ Len(data_file.data.versions) = 3
  /\ Len(iter_head_and_ancestors(data_file.data)) = 2
  /\ <<"~", "1">> \notin DOMAIN data_file.data.branches
  /\ resolve_target(data_file.data, <<"~", "1">>).tag = "Version"
  /\ resolve_target(data_file.data, <<"~", "2">>) = TargetInvalid

\* C27: without data.json, commit_initial_version returns Ok and writes a document
\* with one version, which has no parent and a Full blob that holds the bytes of the
\* versioned file, one branch, named as given or "main" when no name is given, whose
\* tip is that version, and the head on that branch; with data.json it returns an
\* error and leaves data.json, the backups and every blob as they were.
C27_InitialCommit ==
  (Idle /\ versioned_file.exists) =>
    \A branch \in BranchArgs, description \in DescriptionArgs, env \in AllEnvs :
      LET outcome == commit_initial_version(Disk, env, branch, description, next_id, now)
          after == Ran(outcome, env).disk
          a == after.data_file.data
          name == IF branch = NoneName THEN <<"m", "a", "i", "n">> ELSE branch.value
      IN  IF data_file.exists
          THEN /\ Result(outcome, env) = "Err"
               /\ after = Disk
          ELSE /\ ReturnsOk(outcome, env)
               /\ after.data_file.exists
               /\ Len(a.versions) = 1
               /\ a.versions[1].parent = NoId
               /\ ~is_patch(a.versions[1])
               /\ after.blobs[a.versions[1].content_blob_file_name] = versioned_file.bytes
               /\ DOMAIN a.branches = {name}
               /\ a.branches[name] = a.versions[1].id
               /\ a.head = HeadBranch(name)

\* the first commit was made on a branch named by the caller after an earlier attempt
\* had ended before it wrote data.json, and a second commit_initial_version is
\* refused
C27_Witness ==
  /\ Idle
  /\ data_file.exists
  /\ Len(data_file.data.versions) = 1
  /\ data_file.data.versions[1].id > 1
  /\ data_file.data.head = HeadBranch(Name_feat)
  /\ commit_initial_version(Disk, NoEnv, NoneName, NoneStr, next_id, now).result = "Err"

\* the ids of the stored versions that are not stored after the call
Removed(outcome, env) == version_ids(data_file.data) \ version_ids(DataAfter(outcome, env))

\* commit_version, reword, check_out, restore, discard and rename_branch remove no
\* stored version, whatever their arguments and the way they end
NoRemovalByOthers ==
  /\ \A new_branch \in BranchArgs, description \in DescriptionArgs, env \in Envs :
       Removed(commit_version(Disk, env, new_branch, description, next_id, now), env) = {}
  /\ \A target \in AllTargets, description \in Descriptions :
       Removed(reword(Disk, target, description), NoEnv) = {}
  /\ \A target \in AllTargets, env \in DeltaEnvs :
       /\ Removed(check_out(Disk, target), env) = {}
       /\ \A output \in OutputArgs : Removed(restore(Disk, target, output), env) = {}
  /\ \A env \in DeltaEnvs : Removed(discard(Disk), env) = {}
  /\ \A old_name \in BranchNames, new_name \in BranchNames :
       Removed(rename_branch(Disk, old_name, new_name), NoEnv) = {}

\* C28: a stored version stays in versions until a reset or a delete_branch removes
\* it: commit_version, amend_head, reword, check_out, restore, discard and
\* rename_branch remove no stored version.
C28_OnlyResetAndDeleteRemove ==
  Callable =>
    /\ NoRemovalByOthers
    /\ \A description \in DescriptionArgs, env \in Envs :
         Removed(amend_head(Disk, env, description, next_id, now), env) = {}

\* C28 as the code has it: commit_version, reword, check_out, restore, discard and
\* rename_branch remove no stored version; amend_head removes the version the head
\* designates when it returns Ok (a version with a new id takes its place) and no
\* other version ever.
C28_OnlyResetDeleteAndAmendRemove ==
  Callable =>
    /\ NoRemovalByOthers
    /\ \A description \in DescriptionArgs, env \in Envs :
         LET outcome == amend_head(Disk, env, description, next_id, now)
         IN  Removed(outcome, env) =
               (IF ReturnsOk(outcome, env) THEN {head_version(data_file.data).id} ELSE {})

\* two versions or more are stored, a commit on the head's branch returns Ok and
\* removes nothing, and an amend returns Ok and removes the head version
C28_Witness ==
  /\ Callable
  /\ Len(data_file.data.versions) >= 2
  /\ ReturnsOk(commit_version(Disk, NoEnv, NoneName, NoneStr, next_id, now), NoEnv)
  /\ Removed(commit_version(Disk, NoEnv, NoneName, NoneStr, next_id, now), NoEnv) = {}
  /\ ReturnsOk(amend_head(Disk, NoEnv, NoneStr, next_id, now), NoEnv)
  /\ Removed(amend_head(Disk, NoEnv, NoneStr, next_id, now), NoEnv) = {head_version(data_file.data).id}

\* the generations of the rolling backup
Generations == 1..5

\* C29: the modified times of data_backup1.json .. data_backup5.json, for those that
\* exist, never increase from one generation to the next older one (the first half
\* of the claim, which fails alone).
C29_ModifiedTimesMonotone ==
  Initialized =>
    \A k \in Generations, j \in Generations :
      (k < j /\ backups[k].exists /\ backups[j].exists) => backups[k].modified >= backups[j].modified

\* the documents of the generations are in order: an older generation never holds a
\* document written later than the one of a newer generation, and data.json holds the
\* latest
C29_DocumentsMonotone ==
  Initialized =>
    /\ \A k \in Generations :
         backups[k].exists => Len(backups[k].data.versions) <= Len(data_file.data.versions)
    /\ \A k \in Generations, j \in Generations :
         (k < j /\ backups[j].exists) =>
           backups[k].exists /\ Len(backups[k].data.versions) >= Len(backups[j].data.versions)

\* the five generations exist, and the second was refreshed after the first
C29_Reached ==
  /\ \A k \in Generations : backups[k].exists
  /\ backups[2].modified > backups[1].modified

\* the minimum age of generation k: 10 s, 5 min, 1 h, 5 h, 24 h
MinimumAge(k) ==
  CASE k = 1 -> 10
    [] k = 2 -> 300
    [] k = 3 -> 3600
    [] k = 4 -> 18000
    [] k = 5 -> 86400

\* the file generation k is copied from, as it is before the write
Predecessor(k) == IF k = 1 THEN data_file ELSE backups[k - 1]

\* the step has written generation k
Refreshed(k) == backups'[k] # backups[k]

\* C30: in one write, a refreshed generation k receives the document generation k-1
\* (data.json for k = 1) held before the write began, so no document advances more
\* than one generation; generation k is refreshed only if its predecessor exists and
\* generation k is missing or was last modified more than its minimum age ago.
C30_Rotation ==
  [][\A k \in Generations :
       Refreshed(k) =>
         /\ Predecessor(k).exists
         /\ backups'[k].exists
         /\ backups'[k].data = Predecessor(k).data
         /\ backups'[k].modified = now
         /\ ~backups[k].exists \/ now - backups[k].modified > MinimumAge(k)]_vars

\* C30 as the code has it: the same, with generation k refreshed only if it is
\* missing or was last modified at least its minimum age ago, and then always,
\* provided its predecessor exists.
C30_RotationAtLeast ==
  [][\A k \in Generations :
       /\ Refreshed(k) =>
            /\ Predecessor(k).exists
            /\ backups'[k].exists
            /\ backups'[k].data = Predecessor(k).data
            /\ backups'[k].modified = now
            /\ ~backups[k].exists \/ now - backups[k].modified >= MinimumAge(k)
       /\ (data_file' # data_file /\ Predecessor(k).exists
             /\ (~backups[k].exists \/ now - backups[k].modified >= MinimumAge(k))) =>
            Refreshed(k)]_vars

\* the five generations hold five different documents in the order of their
\* writing, and the oldest generation has been refreshed after its minimum age
C30_Witness ==
  /\ \A k \in Generations : backups[k].exists
  /\ \A k \in 1..4 : Len(backups[k].data.versions) > Len(backups[k + 1].data.versions)
  /\ backups[5].modified >= 86400
  /\ Len(backups[5].data.versions) >= 2


\* the names given to rename_branch: the branch names and one that is never a branch
RenameNames == BranchNames \cup {<<"x">>}

\* C31: rename_branch(old, new) with old = new returns Ok and changes nothing, also
\* when old is no branch; otherwise it returns AnotherBranchExistsWithSameName when
\* new is a branch, whether old is one or not, else BranchDoesNotExist when old is no
\* branch; after either refusal the files are as they were.
C31_RenameDecision ==
  Initialized =>
    \A old_name \in RenameNames, new_name \in RenameNames :
      LET outcome == rename_branch(Disk, old_name, new_name)
          names == DOMAIN data_file.data.branches
      IN  /\ old_name = new_name =>
               Result(outcome, NoEnv) = "Ok" /\ Ran(outcome, NoEnv).disk = Disk
          /\ (old_name # new_name /\ new_name \in names) =>
               /\ outcome.result = "AnotherBranchExistsWithSameName"
               /\ Ran(outcome, NoEnv).disk = Disk
          /\ (old_name # new_name /\ new_name \notin names /\ old_name \notin names) =>
               /\ outcome.result = "BranchDoesNotExist"
               /\ Ran(outcome, NoEnv).disk = Disk

\* a repository with one branch, where a rename from a name that is no branch to the
\* existing branch is refused, and a rename between two names that are no branches
\* is refused as well
C31_RefusalsReached ==
  /\ Initialized
  /\ \E old_name \in RenameNames, new_name \in RenameNames :
       /\ old_name # new_name
       /\ old_name \notin DOMAIN data_file.data.branches
       /\ new_name \in DOMAIN data_file.data.branches
       /\ rename_branch(Disk, old_name, new_name).result = "AnotherBranchExistsWithSameName"
  /\ \E old_name \in RenameNames, new_name \in RenameNames :
       /\ old_name # new_name
       /\ rename_branch(Disk, old_name, new_name).result = "BranchDoesNotExist"
  /\ \E old_name \in RenameNames :
       /\ old_name \notin DOMAIN data_file.data.branches
       /\ rename_branch(Disk, old_name, old_name).result = "Ok"

\* the call ends in an abnormal abort: the validity check of write_data_file fails,
\* or a version the operation looks up is not stored
Aborts(outcome, env) == Result(outcome, env) = "Panic"

\* commit_version, amend_head, reword, check_out, restore and discard never abort
NoAbortByOthers ==
  /\ \A new_branch \in BranchArgs, description \in DescriptionArgs, env \in Envs :
       /\ ~Aborts(commit_version(Disk, env, new_branch, description, next_id, now), env)
       /\ ~Aborts(amend_head(Disk, env, description, next_id, now), env)
  /\ \A target \in AllTargets, description \in Descriptions :
       ~Aborts(reword(Disk, target, description), NoEnv)
  /\ \A target \in AllTargets, env \in DeltaEnvs :
       /\ ~Aborts(check_out(Disk, target), env)
       /\ \A output \in OutputArgs : ~Aborts(restore(Disk, target, output), env)
  /\ \A env \in DeltaEnvs : ~Aborts(discard(Disk), env)

\* C32: in a repository made by commit_initial_version and any sequence of the nine
\* other operations, no call of an operation makes the validity check of
\* write_data_file fail, and the head resolves to a stored version.
C32_NeverAborts ==
  Callable =>
    /\ NoAbortByOthers
    /\ \A target \in ResetTargets : ~Aborts(reset(Disk, target), NoEnv)
    /\ \A old_name \in BranchNames, new_name \in BranchNames :
         ~Aborts(rename_branch(Disk, old_name, new_name), NoEnv)
    /\ \A name \in BranchNames : ~Aborts(delete_branch(Disk, name), NoEnv)

\* the document in data.json is valid and its head resolves after any sequence of
\* operations, and the six operations that neither move nor remove a branch never
\* abort: the aborts are those of reset, rename_branch and delete_branch
C32_AbortsOnlyInBranchSurgery ==
  Initialized =>
    /\ valid(data_file.data)
    /\ head_resolves(data_file.data)
    /\ versioned_file.exists => NoAbortByOthers

\* a repository with two branches where a rename of the head's branch aborts
C32_AbortReached ==
  /\ Callable
  /\ Cardinality(DOMAIN data_file.data.branches) = 2
  /\ \E old_name \in BranchNames :
       /\ data_file.data.head = HeadBranch(old_name)
       /\ Aborts(rename_branch(Disk, old_name, <<"x">>), NoEnv)

\* the refusals of the operations
Refusals ==
  {"NothingToCommit", "BranchRequired", "BranchAlreadyExists", "NoUncommittedChanges",
   "HeadMustBeBranch", "CannotAmendParent", "HeadEqualsParent", "InvalidTarget",
   "CannotLeaveOrphans", "BlockedByUncommittedChanges", "AnotherBranchExistsWithSameName",
   "BranchDoesNotExist", "CannotDeleteHead"}

\* what every operation decides in this state, for every argument, with the
\* environment it runs in
AllOutcomes ==
  {<<commit_version(Disk, env, new_branch, description, next_id, now), env>> :
      new_branch \in BranchArgs, description \in DescriptionArgs, env \in Envs}
  \cup {<<amend_head(Disk, env, description, next_id, now), env>> :
          description \in DescriptionArgs, env \in Envs}
  \cup {<<reword(Disk, target, description), NoEnv>> :
          target \in AllTargets, description \in Descriptions}
  \cup {<<reset(Disk, target), NoEnv>> : target \in ResetTargets \cup {<<>>}}
  \cup {<<check_out(Disk, target), env>> : target \in AllTargets, env \in DeltaEnvs}
  \cup {<<restore(Disk, target, output), env>> :
          target \in AllTargets, output \in OutputArgs, env \in DeltaEnvs}
  \cup {<<rename_branch(Disk, old_name, new_name), NoEnv>> :
          old_name \in RenameNames, new_name \in RenameNames}
  \cup {<<delete_branch(Disk, name), NoEnv>> : name \in RenameNames}

\* some operation answers the refusal r in this state
Refuses(r) == \E p \in AllOutcomes : p[1].result = r

\* C33: a call that ends with a refusal leaves data.json, the backups, every blob and
\* the versioned file as they were: no file-system step precedes a refusal, and the
\* document an operation modifies is built after its last refusal.
C33_RefusalsChangeNothing ==
  Initialized =>
    \A p \in AllOutcomes :
      p[1].result \in Refusals =>
        /\ Ran(p[1], p[2]).disk = Disk
        /\ Ran(p[1], p[2]).status = "Ok"

\* a repository with two branches and no uncommitted change, where six of the
\* refusals are answered
C33_Witness ==
  /\ Callable
  /\ ~FileChanged
  /\ Cardinality(DOMAIN data_file.data.branches) = 2
  /\ \A r \in {"NothingToCommit", "NoUncommittedChanges", "InvalidTarget",
               "AnotherBranchExistsWithSameName", "BranchDoesNotExist", "CannotDeleteHead"} :
       Refuses(r)

\* the call ends with a genuine error and data.json is not the file it was
ErrorChangesDataFile(outcome, env) ==
  Result(outcome, env) = "Err" /\ Ran(outcome, env).disk.data_file # data_file

\* commit_version and amend_head write their blobs before data.json, so an error of
\* theirs leaves data.json as it was
C34_CommitAndAmendErrorsKeepDataFile ==
  Initialized =>
    \A new_branch \in BranchArgs, description \in DescriptionArgs, env \in AllEnvs :
      /\ ~ErrorChangesDataFile(commit_version(Disk, env, new_branch, description, next_id, now), env)
      /\ ~ErrorChangesDataFile(amend_head(Disk, env, description, next_id, now), env)

\* C34: when commit_version, amend_head or check_out ends with a genuine error (a blob
\* write, a failure of the delta or the preview tool, a failed reconstruction),
\* data.json on disk is the file it was before the call.
C34_ErrorsKeepDataFile ==
  Initialized =>
    /\ C34_CommitAndAmendErrorsKeepDataFile
    /\ \A target \in AllTargets, env \in DeltaEnvs :
         ~ErrorChangesDataFile(check_out(Disk, target), env)

\* a check_out of a Patch version without the delta tool fails after it has written
\* the new head to data.json and removed the versioned file
C34_Reached ==
  /\ Callable
  /\ \E target \in IdTexts :
       LET outcome == check_out(Disk, target)
       IN  /\ Result(outcome, Env(FALSE, TRUE)) = "Err"
           /\ DataAfter(outcome, Env(FALSE, TRUE)).head # data_file.data.head
           /\ ~Ran(outcome, Env(FALSE, TRUE)).disk.versioned_file.exists

\* what check_out, restore to the versioned file and discard decide in this state
Reconstructions ==
  {check_out(Disk, target) : target \in AllTargets}
  \cup {restore(Disk, target, NoneStr) : target \in AllTargets}
  \cup {discard(Disk)}

\* C35: when check_out, restore to the versioned file or discard ends with a genuine
\* error while reconstructing a version, the versioned file exists afterwards with the
\* content it had before the call.
C35_ErrorsKeepVersionedFile ==
  Callable =>
    \A outcome \in Reconstructions, env \in DeltaEnvs :
      Result(outcome, env) = "Err" => Ran(outcome, env).disk.versioned_file = versioned_file

\* a reconstruction that ends with an error has removed the versioned file: the
\* version is a Patch, and apply_patch removes the output before it runs the tool
C35_ErrorsRemoveVersionedFile ==
  Callable =>
    \A outcome \in Reconstructions, env \in DeltaEnvs :
      Result(outcome, env) = "Err" =>
        /\ ~env.xdelta3_ready
        /\ ~Ran(outcome, env).disk.versioned_file.exists

\* the head is a Patch version and the file has been edited: a discard without the
\* delta tool ends with an error and the versioned file is gone
C35_Reached ==
  /\ Callable
  /\ FileChanged
  /\ is_patch(head_version(data_file.data))
  /\ Result(discard(Disk), Env(FALSE, TRUE)) = "Err"
  /\ ~Ran(discard(Disk), Env(FALSE, TRUE)).disk.versioned_file.exists

\* restore of the stored version v, named by its id, to the output path, with the
\* delta tool ready
RestoreToNewPath(v) == restore(Disk, bs58(v.id), Some("output_file"))

\* C36: with no uncommitted change and no file at the output path,
\* restore(target, output_path) returns Ok and leaves the bytes committed for the
\* target version at that path, whether the target is stored as Full or as Patch
\* (delta tool ready).
C36_RestoreToNewPath ==
  (Callable /\ ~FileChanged /\ ~output_file.exists) =>
    \A v \in VersionsOf(data_file.data) :
      /\ ReturnsOk(RestoreToNewPath(v), NoEnv)
      /\ Ran(RestoreToNewPath(v), NoEnv).disk.output_file = FileOf(committed[v.id])

\* with no file at the output path a Full version is restored there, and the restore
\* of a Patch version ends with the error of fs::remove_file and leaves no file
C36_FullToNewPath ==
  (Callable /\ ~FileChanged /\ ~output_file.exists) =>
    \A v \in VersionsOf(data_file.data) :
      IF is_patch(v)
      THEN /\ Result(RestoreToNewPath(v), NoEnv) = "Err"
           /\ ~Ran(RestoreToNewPath(v), NoEnv).disk.output_file.exists
      ELSE /\ ReturnsOk(RestoreToNewPath(v), NoEnv)
           /\ Ran(RestoreToNewPath(v), NoEnv).disk.output_file = FileOf(committed[v.id])

\* nothing is at the output path, a Full and a Patch version are stored, and once
\* the path holds a file the same Patch version is restored to it
C36_Reached ==
  /\ Callable
  /\ ~FileChanged
  /\ ~output_file.exists
  /\ \E v \in VersionsOf(data_file.data), w \in VersionsOf(data_file.data) :
       /\ ~is_patch(v)
       /\ is_patch(w)
       /\ ReturnsOk(RestoreToNewPath(v), NoEnv)
       /\ Result(RestoreToNewPath(w), NoEnv) = "Err"
       /\ LET after == Ran(RestoreToNewPath(v), NoEnv).disk
          IN  RunSteps(after, restore(after, bs58(w.id), Some("output_file")).steps, NoEnv, now).status = "Ok"

\* C37: after initialisation the branch map is never empty, and delete_branch of the
\* only branch returns CannotDeleteHead, whether the head is on the branch or
\* detached.
C37_BranchesNonEmpty ==
  Initialized =>
    LET names == DOMAIN data_file.data.branches
    IN  /\ names # {}
        /\ Cardinality(names) = 1 =>
             \A name \in names : delete_branch(Disk, name) = Refusal("CannotDeleteHead")

\* one branch is left of two, the head is detached at a version that is not the tip,
\* and delete_branch of the branch returns CannotDeleteHead
C37_Witness ==
  /\ Initialized
  /\ DOMAIN data_file.data.branches = {Name_feat}
  /\ data_file.data.head.tag = "Version"
  /\ data_file.data.head.version # data_file.data.branches[Name_feat]
  /\ delete_branch(Disk, Name_feat).result = "CannotDeleteHead"

\* the revision of the metadata a stored file holds: every write of the history adds
\* a version, so a later document is a longer one
Revision(file) == Len(file.data.versions)

\* C38: whatever the times of the metadata writes, data_backup(k+1).json never holds
\* a later revision of the document than data_backup(k).json, and data_backup1.json
\* never holds a later one than data.json.
C38_BackupsInOrder ==
  Initialized =>
    /\ backups[1].exists => Revision(backups[1]) <= Revision(data_file)
    /\ \A k \in 1..4 :
         (backups[k].exists /\ backups[k + 1].exists) =>
           Revision(backups[k + 1]) <= Revision(backups[k])

\* the generations are staggered: the five exist, the oldest holds an earlier
\* revision than the newest and was nevertheless modified later than its predecessor
C38_Witness ==
  /\ \A k \in Generations : backups[k].exists
  /\ Revision(backups[1]) < Revision(data_file)
  /\ Revision(backups[5]) < Revision(backups[1])
  /\ backups[5].modified > backups[4].modified

\* texts that name nothing: empty, ~ followed by a non-number, one and two characters
\* long, and with characters of two bytes
OddTargets ==
  {<<>>, <<"~", "x">>, <<"~", "e_acute">>, <<"q">>, <<"q", "q">>, <<"q", "q", "q">>,
   <<"e_acute">>, <<"u_umlaut">>, <<"e_acute", "q">>, <<"q", "u_umlaut">>, <<"e_acute", "u_umlaut">>}

\* the text is one character of two bytes
OneTwoByteCharacter(target) == Len(target) = 1 /\ str_len(target) = 2

\* C39: for every text (empty, ~ followed by a non-number, one or two characters
\* long, with characters of more than one byte) resolve_target returns Branch, Version
\* or Invalid and never aborts, and check_out and restore answer InvalidTarget for a
\* text that matches no rule.
C39_ResolutionTotal ==
  (Callable /\ ~FileChanged) =>
    \A target \in OddTargets \cup AllTargets :
      /\ resolve_target(data_file.data, target).tag \in {"Branch", "Version", "Invalid"}
      /\ target \in OddTargets =>
           /\ check_out(Disk, target).result = "InvalidTarget"
           /\ restore(Disk, target, NoneStr).result = "InvalidTarget"

\* resolution aborts for exactly the texts that are one character of two bytes, in
\* the unwrap of the second character in nickname_initials_match; every other text
\* that matches no rule is answered with InvalidTarget
C39_AbortsOnOneTwoByteCharacter ==
  (Callable /\ ~FileChanged) =>
    \A target \in OddTargets \cup AllTargets :
      IF OneTwoByteCharacter(target)
      THEN /\ resolve_target(data_file.data, target).tag = "Panic"
           /\ check_out(Disk, target).result = "Panic"
           /\ restore(Disk, target, NoneStr).result = "Panic"
      ELSE /\ resolve_target(data_file.data, target).tag \in {"Branch", "Version", "Invalid"}
           /\ target \in OddTargets =>
                /\ check_out(Disk, target).result = "InvalidTarget"
                /\ restore(Disk, target, NoneStr).result = "InvalidTarget"

\* three versions are stored, a text of two characters is answered with
\* InvalidTarget and a text of one character of two bytes makes check_out abort
C39_Reached ==
  /\ Callable
  /\ ~FileChanged
  /\ Len(data_file.data.versions) = 3
  /\ check_out(Disk, <<"q", "u_umlaut">>).result = "InvalidTarget"
  /\ check_out(Disk, <<"e_acute">>).result = "Panic"

\* the blob files the version v of the document d refers to: its content blob, its
\* preview, and the content blob of the version its patch is based on
ReferencedBlobs(d, v) ==
  {v.content_blob_file_name}
    \cup (IF v.preview_blob_file_name = NoBlobName THEN {} ELSE {v.preview_blob_file_name})
    \cup (IF is_patch(v) THEN {version(d, v.patch_base).content_blob_file_name} ELSE {})

\* C40 (first part): with two processes that load data.json and interleave their
\* file-system steps, the document in data.json is always valid and every blob it
\* refers to exists.
C40_DataFileSound ==
  Initialized =>
    /\ valid(data_file.data)
    /\ \A v \in VersionsOf(data_file.data) :
         /\ is_patch(v) => has_version(data_file.data, v.patch_base)
         /\ ReferencedBlobs(data_file.data, v) \subseteq DOMAIN blobs

\* the content stored for the version v is the content its recorded hash and length
\* describe
StoredIntact(v) ==
  LET r == Reconstructed(v)
  IN  /\ r.status = "Ok"
      /\ xxh3_128(r.disk.versioned_file.bytes) = v.versioned_file_xxh3_128
      /\ FileLength(r.disk.versioned_file.bytes) = v.versioned_file_length

\* C40 (second part): nothing but orphan blobs and a lost update is damaged: every
\* version in data.json still reconstructs to the content it was committed with.
C40_VersionsIntact ==
  Initialized => \A v \in VersionsOf(data_file.data) : StoredIntact(v)

\* C40 as stated: the document is sound and nothing but orphan blobs and a lost
\* update is damaged.
C40_OnlyOrphansAndLostUpdates ==
  Initialized =>
    /\ C40_DataFileSound
    /\ C40_VersionsIntact

\* a blob of a version that data.json does not hold
OrphanBlobs ==
  {name \in DOMAIN blobs : \A v \in VersionsOf(data_file.data) :
     name \notin {v.content_blob_file_name, v.preview_blob_file_name}}

\* C40 as the code has it: the document in data.json is always valid, every blob it
\* refers to exists and every stored version can be reconstructed without error;
\* the content reconstructed need not be the one the version records.
C40_SoundAndReconstructible ==
  Initialized =>
    /\ C40_DataFileSound
    /\ \A v \in VersionsOf(data_file.data) : Reconstructed(v).status = "Ok"

\* both processes have finished: the commit of one is lost, its blobs are orphans,
\* and the version the other has stored does not hold the content it records
C40_Witness ==
  /\ Initialized
  /\ pending = NoPending
  /\ other_pending = NoPending
  /\ OrphanBlobs # {}
  /\ \E id \in DOMAIN committed : ~has_version(data_file.data, id)
  /\ \E v \in VersionsOf(data_file.data) : ~StoredIntact(v)
====
